---- MODULE Spec2Model ----
(***************************************************************************)
(* face-to-midi: head pose -> MIDI Control Change.                         *)
(*                                                                         *)
(* The module models                                                       *)
(*   - CalibrationWizard (calibration_wizard.py): the guided sequence,     *)
(*     driven by Tk `after` timers and by the Start / Skip / Cancel        *)
(*     buttons;                                                            *)
(*   - ConfigManager (config_manager.py): the configuration document;      *)
(*   - MIDIController (midi_controller.py): map_value, send_cc and         *)
(*     process_head_pose with its last_values cache.                       *)
(*                                                                         *)
(* Python dicts are functions whose DOMAIN is the set of keys; None is     *)
(* the empty dict for a pose and the empty sequence for a cached value.    *)
(* Angles are whole degrees.                                               *)
(***************************************************************************)
EXTENDS Integers, Sequences, FiniteSets, Bags, TLC

VARIABLES
    \* ---- CalibrationWizard fields
    current_step,      \* index into calibration_steps, 0-based as in the code
    is_running,        \* CalibrationWizard.is_running
    neutral_values,    \* dict axis -> angle, {} until the neutral capture
    captured_values,   \* dict slot -> angle relative to neutral
    start_button,      \* "normal" | "disabled"
    skip_button,       \* "normal" | "disabled"
    cancel_button,     \* the command bound to the button: "cancel" | "close"
    window,            \* TRUE while the wizard's Toplevel exists
    after_queue,       \* bag of pending Tk timers of the wizard window
    \* ---- ConfigManager
    config,            \* ConfigManager.config
    \* ---- MIDIController
    last_values,       \* dict axis -> <<>> (None) or <<value>>
    port_open,         \* midi_out.is_port_open()
    edits,             \* manual edits of the configuration so far
    \* ---- observation (history) of the run, not program state
    obs,               \* what the wizard did so far
    calls,             \* the last two process_head_pose calls
    mapped,            \* the last map_value calls made on one set of ranges
    \* ---- FaceToMIDIApp
    app,               \* is_running, last_head_pose, camera_loop's neutral_offsets
    \* ---- FaceTracker
    tracker,           \* prev_roll and the last get_head_pose calls
    cfgcall,           \* the last calibrate_axis or reset_axis_to_default call
    threads,           \* init and camera threads, and a commit in progress
    doc                \* a configuration file's document and its merge

wizVars  == <<current_step, is_running, neutral_values, captured_values,
              start_button, skip_button, cancel_button, window, after_queue>>
midiVars == <<last_values, port_open, edits, calls, mapped, app>>
moreVars == <<tracker, cfgcall, threads, doc>>
vars     == <<wizVars, config, midiVars, moreVars, obs>>

(***************************************************************************)
(* Bounds of the model                                                     *)
(***************************************************************************)
\* Skip requests accepted in one run of the wizard.
MaxSkips == 1

\* Capture instants of one run at which the tracker has no pose, in the
\* specification that also draws skip requests.
MaxMisses == 1

\* Manual edits of the axis configuration between process_head_pose calls.
MaxEdits == 1

\* map_value is explored on every input range with bounds in
\* -MaxInput..MaxInput, every output range with bounds in
\* -MaxOutput..MaxOutput and every value one step beyond the input bounds.
MaxInput == 2
MaxOutput == 3

\* Presses of an axis's enabled checkbox during the tracking sessions.
MaxToggles == 2

\* Frames handed to get_head_pose in a run of the roll filter.
MaxSamples == 3

\* Presses of the Set Min, Set Max and Reset buttons in one run.
MaxPresses == 2

\* start_tracking calls and wizard commits in one run.
MaxStarts == 2

MaxCommits == 1

\* Calibration runs started in one tracking session.
MaxRuns == 2

(***************************************************************************)
(* Python dict helpers                                                     *)
(***************************************************************************)
EmptyDict == [k \in {} |-> 0]

DictGet(d, k, default) == IF k \in DOMAIN d THEN d[k] ELSE default

DictSet(d, k, v) == [x \in (DOMAIN d) \cup {k} |-> IF x = k THEN v ELSE d[x]]

DictUpdate(d, other) ==
    [x \in (DOMAIN d) \cup (DOMAIN other) |->
        IF x \in DOMAIN other THEN other[x] ELSE d[x]]

PyMin(a, b) == IF b < a THEN b ELSE a

PyMax(a, b) == IF b > a THEN b ELSE a

AxisOrder == <<"pitch", "yaw", "roll">>

AxisNames == {"pitch", "yaw", "roll"}

(***************************************************************************)
(* Pose source: FaceToMIDIApp.get_current_head_pose returns the last raw   *)
(* pose of the camera loop, or None.                                       *)
(***************************************************************************)
NoPose == EmptyDict

PoseA == [pitch |-> -5, yaw |-> 12, roll |-> 8]

PoseB == [pitch |-> 20, yaw |-> -7, roll |-> -3]

PoseReadings == {NoPose, PoseA, PoseB}

(***************************************************************************)
(* ConfigManager                                                           *)
(***************************************************************************)
get_default_config ==
    [pitch   |-> [enabled |-> TRUE, input_min |-> -30, input_max |-> 30,
                  output_min |-> 0, output_max |-> 127,
                  cc_number |-> 1, channel |-> 0],
     yaw     |-> [enabled |-> TRUE, input_min |-> -30, input_max |-> 30,
                  output_min |-> 0, output_max |-> 127,
                  cc_number |-> 2, channel |-> 0],
     roll    |-> [enabled |-> TRUE, input_min |-> -30, input_max |-> 30,
                  output_min |-> 0, output_max |-> 127,
                  cc_number |-> 3, channel |-> 0],
     neutral |-> [pitch |-> 0, yaw |-> 0, roll |-> 0]]

\* A document as load_config returns it from a saved file: every key present,
\* values as an earlier session left them.
SavedConfig ==
    [pitch   |-> [enabled |-> TRUE, input_min |-> -12, input_max |-> 18,
                  output_min |-> 10, output_max |-> 100,
                  cc_number |-> 11, channel |-> 2],
     yaw     |-> [enabled |-> FALSE, input_min |-> -45, input_max |-> 45,
                  output_min |-> 0, output_max |-> 127,
                  cc_number |-> 2, channel |-> 0],
     roll    |-> [enabled |-> TRUE, input_min |-> -20, input_max |-> 25,
                  output_min |-> 127, output_max |-> 0,
                  cc_number |-> 74, channel |-> 15],
     neutral |-> [pitch |-> 3, yaw |-> -2, roll |-> 1]]

load_config == {get_default_config, SavedConfig}

\* JSON values as load_config meets them: an object with its items, or
\* anything else (number, string, boolean, null, list).
Dict(items) == [dict |-> TRUE, items |-> items]

Scalar(value) == [dict |-> FALSE, value |-> value]

\* A configuration of the model as such a document.
Document(cfg) ==
    [k \in DOMAIN cfg |->
        Dict([f \in DOMAIN cfg[k] |-> Scalar(cfg[k][f])])]

\* _merge_configs, on the items of two objects.
RECURSIVE merge_configs(_, _)
merge_configs(default, loaded) ==
    [key \in DOMAIN default |->
        IF key \in DOMAIN loaded
        THEN IF default[key].dict /\ loaded[key].dict
             THEN Dict(merge_configs(default[key].items, loaded[key].items))
             ELSE loaded[key]
        ELSE default[key]]

update_axis_config(cfg, axis, key, value) ==
    IF axis \in DOMAIN cfg /\ key \in DOMAIN cfg[axis]
    THEN [cfg EXCEPT ![axis][key] = value]
    ELSE cfg

\* calibrate_axis that refuses a bound that would cross the other one.
calibrate_axis_keeps_order(cfg, axis, current_value, is_min) ==
    IF axis \in DOMAIN cfg
    THEN IF is_min
         THEN IF current_value <= cfg[axis].input_max
              THEN [cfg EXCEPT ![axis].input_min = current_value]
              ELSE cfg
         ELSE IF current_value >= cfg[axis].input_min
              THEN [cfg EXCEPT ![axis].input_max = current_value]
              ELSE cfg
    ELSE cfg

calibrate_axis(cfg, axis, current_value, is_min) ==
    IF axis \in DOMAIN cfg
    THEN IF is_min
         THEN [cfg EXCEPT ![axis].input_min = current_value]
         ELSE [cfg EXCEPT ![axis].input_max = current_value]
    ELSE cfg

\* reset_axis_to_default that puts the whole document back to the defaults.
reset_axis_to_default_whole(cfg, axis) ==
    IF axis \in DOMAIN get_default_config
    THEN get_default_config
    ELSE cfg

reset_axis_to_default(cfg, axis) ==
    IF axis \in DOMAIN get_default_config
    THEN [cfg EXCEPT ![axis] = get_default_config[axis]]
    ELSE cfg

\* get_neutral_offsets returns the dict stored under 'neutral' itself, not a
\* copy: the caller holds a reference that later set_neutral_offsets calls
\* update in place.  Without the key it returns a fresh dict of zeros.
Zeros == [pitch |-> 0, yaw |-> 0, roll |-> 0]

\* get_neutral_offsets handing out a copy.
get_neutral_offsets_copy(cfg) ==
    [alias |-> FALSE, value |-> DictGet(cfg, "neutral", Zeros)]

get_neutral_offsets(cfg) ==
    IF "neutral" \in DOMAIN cfg
    THEN [alias |-> TRUE, value |-> EmptyDict]
    ELSE [alias |-> FALSE, value |-> Zeros]

\* What a reference handed out by get_neutral_offsets reads as now.
Deref(ref, cfg) == IF ref.alias THEN cfg["neutral"] ELSE ref.value

set_neutral_offsets(cfg, offsets) ==
    LET c == IF "neutral" \in DOMAIN cfg THEN cfg
             ELSE DictSet(cfg, "neutral", EmptyDict)
    IN  [c EXCEPT !["neutral"] = DictUpdate(@, offsets)]

(***************************************************************************)
(* MIDIController                                                          *)
(***************************************************************************)
\* int() of the quotient n / d: truncation toward zero.
PyInt(n, d) ==
    LET an == IF n < 0 THEN -n ELSE n
        ad == IF d < 0 THEN -d ELSE d
        q  == an \div ad
    IN  IF (n < 0) # (d < 0) THEN -q ELSE q

\* Arguments <<input_value, input_min, input_max, output_min, output_max>>,
\* among those explored here, on which the double-precision evaluation of
\* normalized * output_range + output_min lands just below the integer that
\* the exact quotient is: 29 / 50 is stored as 0.57999..., times 100 gives
\* 57.99999999999999, and int() cuts it to 57.
DoubleRoundsBelow == { <<9, -20, 30, 0, 100>> }

\* map_value without the clamp of the input value.
map_value_no_input_clamp(input_value, input_min, input_max, output_min, output_max) ==
    LET input_range  == input_max - input_min
        output_range == output_max - output_min
    IN  IF input_range = 0 THEN output_min
        ELSE PyInt((input_value - input_min) * output_range
                       + output_min * input_range,
                   input_range)

\* map_value measuring from input_max downwards.
map_value_inverted(input_value, input_min, input_max, output_min, output_max) ==
    LET v            == PyMax(input_min, PyMin(input_max, input_value))
        input_range  == input_max - input_min
        output_range == output_max - output_min
    IN  IF input_range = 0 THEN output_min
        ELSE PyMax(output_min, PyMin(output_max,
                 PyInt((input_max - v) * output_range
                           + output_min * input_range,
                       input_range)))

\* map_value answering output_max on an empty input range.
map_value_degenerate_max(input_value, input_min, input_max, output_min, output_max) ==
    LET v            == PyMax(input_min, PyMin(input_max, input_value))
        input_range  == input_max - input_min
        output_range == output_max - output_min
    IN  IF input_range = 0 THEN output_max
        ELSE PyMax(output_min, PyMin(output_max,
                 PyInt((v - input_min) * output_range
                           + output_min * input_range,
                       input_range)))

\* map_value putting the input bounds in order first.
map_value_presorted(input_value, input_min, input_max, output_min, output_max) ==
    LET lo           == PyMin(input_min, input_max)
        hi           == PyMax(input_min, input_max)
        v            == PyMax(lo, PyMin(hi, input_value))
        input_range  == hi - lo
        output_range == output_max - output_min
    IN  IF input_range = 0 THEN output_min
        ELSE PyMax(output_min, PyMin(output_max,
                 PyInt((v - lo) * output_range + output_min * input_range,
                       input_range)))

\* normalized * output_range + output_min is the quotient
\* ((v - input_min) * output_range + output_min * input_range) / input_range,
\* which int() truncates toward zero.  The code evaluates it in double
\* precision: on DoubleRoundsBelow the value handed to int() is just below
\* the exact (positive) integer, elsewhere in the explored domain int() of
\* the double equals the truncation of the exact quotient.
map_value(input_value, input_min, input_max, output_min, output_max) ==
    LET v            == PyMax(input_min, PyMin(input_max, input_value))
        input_range  == input_max - input_min
        output_range == output_max - output_min
    IN  IF input_range = 0 THEN output_min
        ELSE LET exact == PyInt((v - input_min) * output_range
                                    + output_min * input_range,
                                input_range)
                 output_value ==
                     IF <<v, input_min, input_max, output_min, output_max>>
                            \in DoubleRoundsBelow
                     THEN exact - 1
                     ELSE exact
             IN  PyMax(output_min, PyMin(output_max, output_value))

\* The controller during one process_head_pose call: its fields, the mapping
\* being built, and what the call asked of send_cc and put on the port.
Controller(last, open) ==
    [last_values |-> last, port_open |-> open, midi_values |-> EmptyDict,
     sent |-> {}, requests |-> << >>, wire |-> << >>]

\* The status byte 0xB0.
ControlChange == 176

\* send_cc that does not ask whether a port is open.
send_cc_ignores_port(m, channel, cc_number, value) ==
    [m EXCEPT !.requests = Append(@, <<channel, cc_number, value>>),
              !.wire = Append(@, <<ControlChange + channel, cc_number, value>>)]

send_cc(m, channel, cc_number, value) ==
    LET m1 == [m EXCEPT !.requests = Append(@, <<channel, cc_number, value>>)]
    IN  IF m.port_open
        THEN [m1 EXCEPT !.wire =
                 Append(@, <<ControlChange + channel, cc_number, value>>)]
        ELSE m1

\* process_axis that sends on every call.
process_axis_always_sends(m, head_pose, cfg, axis) ==
    IF axis \in DOMAIN head_pose /\ cfg[axis].enabled
    THEN LET midi_value == map_value(head_pose[axis],
                                     cfg[axis].input_min, cfg[axis].input_max,
                                     cfg[axis].output_min, cfg[axis].output_max)
             m1 == [send_cc(m, cfg[axis].channel, cfg[axis].cc_number, midi_value)
                       EXCEPT !.last_values[axis] = <<midi_value>>,
                              !.sent = @ \cup {axis}]
         IN  [m1 EXCEPT !.midi_values = DictSet(@, axis, midi_value)]
    ELSE m

\* process_axis that returns a value only for an axis it sent.
process_axis_returns_only_sent(m, head_pose, cfg, axis) ==
    IF axis \in DOMAIN head_pose /\ cfg[axis].enabled
    THEN LET midi_value == map_value(head_pose[axis],
                                     cfg[axis].input_min, cfg[axis].input_max,
                                     cfg[axis].output_min, cfg[axis].output_max)
         IN  IF m.last_values[axis] # <<midi_value>>
             THEN [send_cc(m, cfg[axis].channel, cfg[axis].cc_number, midi_value)
                      EXCEPT !.last_values[axis] = <<midi_value>>,
                             !.sent = @ \cup {axis},
                             !.midi_values = DictSet(@, axis, midi_value)]
             ELSE m
    ELSE m

\* process_axis that sends without noting the value in last_values.
process_axis_forgets_cache(m, head_pose, cfg, axis) ==
    IF axis \in DOMAIN head_pose /\ cfg[axis].enabled
    THEN LET midi_value == map_value(head_pose[axis],
                                     cfg[axis].input_min, cfg[axis].input_max,
                                     cfg[axis].output_min, cfg[axis].output_max)
             m1 == IF m.last_values[axis] # <<midi_value>>
                   THEN [send_cc(m, cfg[axis].channel, cfg[axis].cc_number,
                                 midi_value)
                            EXCEPT !.sent = @ \cup {axis}]
                   ELSE m
         IN  [m1 EXCEPT !.midi_values = DictSet(@, axis, midi_value)]
    ELSE m

\* process_axis whose cache remembers the CC number and channel with the
\* value, so that a value is sent again on a new CC number or channel.
process_axis_keyed_by_cc(m, head_pose, cfg, axis) ==
    IF axis \in DOMAIN head_pose /\ cfg[axis].enabled
    THEN LET midi_value == map_value(head_pose[axis],
                                     cfg[axis].input_min, cfg[axis].input_max,
                                     cfg[axis].output_min, cfg[axis].output_max)
             key == <<midi_value, cfg[axis].cc_number, cfg[axis].channel>>
             m1 == IF m.last_values[axis] # key
                   THEN [send_cc(m, cfg[axis].channel, cfg[axis].cc_number,
                                 midi_value)
                            EXCEPT !.last_values[axis] = key,
                                   !.sent = @ \cup {axis}]
                   ELSE m
         IN  [m1 EXCEPT !.midi_values = DictSet(@, axis, midi_value)]
    ELSE m

\* process_axis that notes a value in last_values only when a port is open.
process_axis_caches_only_when_open(m, head_pose, cfg, axis) ==
    IF axis \in DOMAIN head_pose /\ cfg[axis].enabled
    THEN LET midi_value == map_value(head_pose[axis],
                                     cfg[axis].input_min, cfg[axis].input_max,
                                     cfg[axis].output_min, cfg[axis].output_max)
             m1 == IF m.last_values[axis] # <<midi_value>>
                   THEN [send_cc(m, cfg[axis].channel, cfg[axis].cc_number,
                                 midi_value)
                            EXCEPT !.last_values[axis] =
                                       IF m.port_open THEN <<midi_value>>
                                       ELSE @,
                                   !.sent = @ \cup {axis}]
                   ELSE m
         IN  [m1 EXCEPT !.midi_values = DictSet(@, axis, midi_value)]
    ELSE m

\* The body of the loop in process_head_pose.
process_axis(m, head_pose, cfg, axis) ==
    IF axis \in DOMAIN head_pose /\ cfg[axis].enabled
    THEN LET midi_value == map_value(head_pose[axis],
                                     cfg[axis].input_min, cfg[axis].input_max,
                                     cfg[axis].output_min, cfg[axis].output_max)
             m1 == IF m.last_values[axis] # <<midi_value>>
                   THEN [send_cc(m, cfg[axis].channel, cfg[axis].cc_number,
                                 midi_value)
                            EXCEPT !.last_values[axis] = <<midi_value>>,
                                   !.sent = @ \cup {axis}]
                   ELSE m
         IN  [m1 EXCEPT !.midi_values = DictSet(@, axis, midi_value)]
    ELSE m

process_head_pose(m, head_pose, cfg) ==
    process_axis(
        process_axis(
            process_axis(m, head_pose, cfg, AxisOrder[1]),
            head_pose, cfg, AxisOrder[2]),
        head_pose, cfg, AxisOrder[3])

\* Poses the camera loop hands to process_head_pose (neutral subtracted).
AdjustedPoses ==
    { [pitch |-> 15,  yaw |-> 0,  roll |-> -40],
      [pitch |-> 15,  yaw |-> 31, roll |-> 10],
      [pitch |-> -31, yaw |-> 0,  roll |-> 10] }

\* What the axis tabs let the user enter (update_axis_enabled,
\* update_axis_value).  The channel box shows 1..16 but takes any typed
\* number, stored minus one: 17 is stored as channel 16.
ManualEdits ==
    { <<a, "enabled", b>> : a \in AxisNames, b \in BOOLEAN }
        \cup { <<"pitch", "input_max", 60>>, <<"pitch", "channel", 16>>,
               <<"yaw", "output_max", 64>>, <<"roll", "cc_number", 20>> }

(***************************************************************************)
(* CalibrationWizard                                                       *)
(***************************************************************************)
calibration_steps ==
    << [action |-> "capture_neutral",   duration |-> 6],
       [action |-> "capture_pitch_max", duration |-> 4],
       [action |-> "capture_pitch_min", duration |-> 4],
       [action |-> "capture_yaw_max",   duration |-> 4],
       [action |-> "capture_yaw_min",   duration |-> 4],
       [action |-> "capture_roll_max",  duration |-> 4],
       [action |-> "capture_roll_min",  duration |-> 4],
       [action |-> "complete",          duration |-> 0] >>

CaptureActions ==
    {calibration_steps[i].action : i \in 1..(Len(calibration_steps) - 1)}

\* window.after(1000, ...): one second of the countdown.
SecondMs == 1000

\* window.after(500, self.next_step): the settle delay.  It divides SecondMs,
\* and is the step by which the model lets time pass.
SettleMs == 500

\* Tk timers: window.after(ms, callback).  A timer is the callback, its bound
\* arguments and the milliseconds left until it is due.
Timer(cb, seconds, action, ms) ==
    [cb |-> cb, seconds |-> seconds, action |-> action, due |-> ms]

after(s, ms, cb, seconds, action) ==
    [s EXCEPT !.after_queue = @ (+) SetToBag({Timer(cb, seconds, action, ms)})]

\* The wizard, its window and the configuration it writes, as one value the
\* handlers below transform.
WizardState ==
    [current_step    |-> current_step,
     is_running      |-> is_running,
     neutral_values  |-> neutral_values,
     captured_values |-> captured_values,
     start_button    |-> start_button,
     skip_button     |-> skip_button,
     cancel_button   |-> cancel_button,
     window          |-> window,
     after_queue     |-> after_queue,
     config          |-> config,
     obs             |-> obs]

SetWizardState(s) ==
    \E w \in {s} :
        /\ current_step'    = w.current_step
        /\ is_running'      = w.is_running
        /\ neutral_values'  = w.neutral_values
        /\ captured_values' = w.captured_values
        /\ start_button'    = w.start_button
        /\ skip_button'     = w.skip_button
        /\ cancel_button'   = w.cancel_button
        /\ window'          = w.window
        /\ after_queue'     = w.after_queue
        /\ config'          = w.config
        /\ obs'             = w.obs

\* apply_captured without the sort: each slot written to the bound of its name.
apply_captured_unsorted(cfg, captured, axis) ==
    LET min_key == axis \o "_min"
        max_key == axis \o "_max"
    IN  IF min_key \in DOMAIN captured /\ max_key \in DOMAIN captured
        THEN update_axis_config(
                 update_axis_config(cfg, axis, "input_min", captured[min_key]),
                 axis, "input_max", captured[max_key])
        ELSE cfg

\* apply_captured writing whichever slot is there.
apply_captured_each_alone(cfg, captured, axis) ==
    LET min_key == axis \o "_min"
        max_key == axis \o "_max"
        c1 == IF min_key \in DOMAIN captured
              THEN update_axis_config(cfg, axis, "input_min", captured[min_key])
              ELSE cfg
    IN  IF max_key \in DOMAIN captured
        THEN update_axis_config(c1, axis, "input_max", captured[max_key])
        ELSE c1

\* One axis of the loop in finish_calibration.
apply_captured(cfg, captured, axis) ==
    LET min_key == axis \o "_min"
        max_key == axis \o "_max"
    IN  IF min_key \in DOMAIN captured /\ max_key \in DOMAIN captured
        THEN LET min_val == PyMin(captured[min_key], captured[max_key])
                 max_val == PyMax(captured[min_key], captured[max_key])
             IN  update_axis_config(
                     update_axis_config(cfg, axis, "input_min", min_val),
                     axis, "input_max", max_val)
        ELSE cfg

\* finish_calibration that forgets to clear is_running.
finish_calibration_keeps_running(s) ==
    LET c0 == IF s.neutral_values # EmptyDict
              THEN set_neutral_offsets(s.config, s.neutral_values)
              ELSE s.config
        c1 == apply_captured(c0, s.captured_values, AxisOrder[1])
        c2 == apply_captured(c1, s.captured_values, AxisOrder[2])
        c3 == apply_captured(c2, s.captured_values, AxisOrder[3])
    IN  [s EXCEPT !.skip_button   = "disabled",
                  !.config        = c3,
                  !.cancel_button = "close",
                  !.obs.commits   = @ + 1]

\* finish_calibration that commits the neutral only with a directional slot.
finish_calibration_neutral_needs_slots(s) ==
    LET c0 == IF s.neutral_values # EmptyDict /\ s.captured_values # EmptyDict
              THEN set_neutral_offsets(s.config, s.neutral_values)
              ELSE s.config
        c1 == apply_captured(c0, s.captured_values, AxisOrder[1])
        c2 == apply_captured(c1, s.captured_values, AxisOrder[2])
        c3 == apply_captured(c2, s.captured_values, AxisOrder[3])
    IN  [s EXCEPT !.is_running    = FALSE,
                  !.skip_button   = "disabled",
                  !.config        = c3,
                  !.cancel_button = "close",
                  !.obs.commits   = @ + 1]

finish_calibration(s) ==
    LET c0 == IF s.neutral_values # EmptyDict
              THEN set_neutral_offsets(s.config, s.neutral_values)
              ELSE s.config
        c1 == apply_captured(c0, s.captured_values, AxisOrder[1])
        c2 == apply_captured(c1, s.captured_values, AxisOrder[2])
        c3 == apply_captured(c2, s.captured_values, AxisOrder[3])
    IN  [s EXCEPT !.is_running    = FALSE,
                  !.skip_button   = "disabled",
                  !.config        = c3,
                  !.cancel_button = "close",
                  !.obs.commits   = @ + 1]

\* store_slot falling back on the configuration's neutral offsets.
store_slot_config_neutral(s, slot, axis, pose) ==
    [s EXCEPT !.captured_values =
                  DictSet(@, slot,
                          pose[axis] - DictGet(s.neutral_values, axis,
                                               DictGet(s.config, "neutral", Zeros)[axis])),
              !.obs.stored[slot] = @ + 1]

\* store_slot without the neutral subtraction.
store_slot_raw(s, slot, axis, pose) ==
    [s EXCEPT !.captured_values = DictSet(@, slot, pose[axis]),
              !.obs.stored[slot] = @ + 1]

\* The body shared by the six directional branches of capture_position.
store_slot(s, slot, axis, pose) ==
    [s EXCEPT !.captured_values =
                  DictSet(@, slot, pose[axis] - DictGet(s.neutral_values, axis, 0)),
              !.obs.stored[slot] = @ + 1]

capture_position(s, action, pose) ==
    LET s0 == [s EXCEPT !.obs.attempts[action] = @ + 1,
                        !.obs.captures = @ + 1,
                        !.obs.misses = IF pose = NoPose THEN @ + 1 ELSE @,
                        !.obs.last_capture = [action |-> action, pose |-> pose]]
    IN  IF pose = NoPose THEN s0
        ELSE IF action = "capture_neutral"
            THEN [s0 EXCEPT !.neutral_values = pose,
                            !.obs.stored["neutral"] = @ + 1]
        ELSE IF action = "capture_pitch_max"
            THEN store_slot(s0, "pitch_max", "pitch", pose)
        ELSE IF action = "capture_pitch_min"
            THEN store_slot(s0, "pitch_min", "pitch", pose)
        ELSE IF action = "capture_yaw_max"
            THEN store_slot(s0, "yaw_max", "yaw", pose)
        ELSE IF action = "capture_yaw_min"
            THEN store_slot(s0, "yaw_min", "yaw", pose)
        ELSE IF action = "capture_roll_max"
            THEN store_slot(s0, "roll_max", "roll", pose)
        ELSE IF action = "capture_roll_min"
            THEN store_slot(s0, "roll_min", "roll", pose)
        ELSE s0

\* countdown without the is_running guard.
countdown_unguarded(s, seconds, action, pose) ==
    IF seconds > 0
    THEN after([s EXCEPT !.obs.ticks[action] = @ + 1],
               SecondMs, "countdown", seconds - 1, action)
    ELSE after(capture_position(s, action, pose), SettleMs, "next_step", 0, "")

\* countdown that captures one second early.
countdown_one_short(s, seconds, action, pose) ==
    IF ~s.is_running THEN s
    ELSE IF seconds > 1
        THEN after([s EXCEPT !.obs.ticks[action] = @ + 1],
                   SecondMs, "countdown", seconds - 1, action)
        ELSE after(capture_position(s, action, pose),
                   SettleMs, "next_step", 0, "")

\* countdown that goes on to the next step only after a successful capture.
countdown_stalls_without_pose(s, seconds, action, pose) ==
    IF ~s.is_running THEN s
    ELSE IF seconds > 0
        THEN after([s EXCEPT !.obs.ticks[action] = @ + 1],
                   SecondMs, "countdown", seconds - 1, action)
        ELSE IF pose = NoPose
            THEN capture_position(s, action, pose)
            ELSE after(capture_position(s, action, pose),
                       SettleMs, "next_step", 0, "")

\* `pose` is what get_current_pose() returns if this call reaches the capture.
countdown(s, seconds, action, pose) ==
    IF ~s.is_running THEN s
    ELSE IF seconds > 0
        THEN after([s EXCEPT !.obs.ticks[action] = @ + 1],
                   SecondMs, "countdown", seconds - 1, action)
        ELSE after(capture_position(s, action, pose),
                   SettleMs, "next_step", 0, "")

run_current_step(s, pose) ==
    IF ~s.is_running \/ s.current_step >= Len(calibration_steps) THEN s
    ELSE LET step == calibration_steps[s.current_step + 1]
             s1   == [s EXCEPT !.obs.entered = Append(@, s.current_step)]
         IN  IF step.action = "complete"
             THEN finish_calibration(s1)
             ELSE countdown(s1, step.duration, step.action, pose)

\* next_step that advances the index and forgets to run the step.
next_step_forgets_to_run(s, pose) ==
    IF ~s.is_running THEN s
    ELSE LET s1 == [s EXCEPT !.current_step = @ + 1]
         IN  IF s1.current_step < Len(calibration_steps)
             THEN s1
             ELSE finish_calibration(s1)

next_step(s, pose) ==
    IF ~s.is_running THEN s
    ELSE LET s1 == [s EXCEPT !.current_step = @ + 1]
         IN  IF s1.current_step < Len(calibration_steps)
             THEN run_current_step(s1, pose)
             ELSE finish_calibration(s1)

skip_step(s) ==
    IF ~s.is_running THEN s
    ELSE after([s EXCEPT !.obs.skipped = @ \cup {s.current_step}],
               SettleMs, "next_step", 0, "")

ObsInit(cfg) ==
    [skips        |-> 0,
     skipped      |-> {},
     stored       |-> [k \in {"neutral", "pitch_max", "pitch_min", "yaw_max",
                              "yaw_min", "roll_max", "roll_min"} |-> 0],
     attempts     |-> [a \in CaptureActions |-> 0],
     ticks        |-> [a \in CaptureActions |-> 0],
     captures     |-> 0,
     misses       |-> 0,
     last_capture |-> [action |-> "", pose |-> NoPose],
     entered      |-> << >>,
     commits      |-> 0,
     cancelled    |-> FALSE,
     config0      |-> cfg,
     runs         |-> 0]

\* start_calibration that begins from the neutral offsets stored in the
\* configuration instead of from nothing.
start_calibration_seeds_neutral(s, pose) ==
    run_current_step(
        [s EXCEPT !.is_running      = TRUE,
                  !.current_step    = 0,
                  !.neutral_values  = DictGet(s.config, "neutral", EmptyDict),
                  !.captured_values = EmptyDict,
                  !.start_button    = "disabled",
                  !.skip_button     = "normal",
                  !.obs             = [ObsInit(s.config) EXCEPT
                                           !.runs = s.obs.runs + 1]],
        pose)

\* obs is reset for the run that begins; runs counts the runs.
start_calibration(s, pose) ==
    run_current_step(
        [s EXCEPT !.is_running      = TRUE,
                  !.current_step    = 0,
                  !.neutral_values  = EmptyDict,
                  !.captured_values = EmptyDict,
                  !.start_button    = "disabled",
                  !.skip_button     = "normal",
                  !.obs             = [ObsInit(s.config) EXCEPT
                                           !.runs = s.obs.runs + 1]],
        pose)

\* CalibrationWizard.__init__ and create_window: a new wizard object with
\* its own fields and window.  Timers of an earlier wizard belong to that
\* object and its destroyed window; none is pending on the new one.
CalibrationWizard(s) ==
    [s EXCEPT !.current_step    = 0,
              !.is_running      = FALSE,
              !.neutral_values  = EmptyDict,
              !.captured_values = EmptyDict,
              !.start_button    = "normal",
              !.skip_button     = "disabled",
              !.cancel_button   = "cancel",
              !.window          = TRUE,
              !.after_queue     = EmptyBag]

cancel(s) ==
    [s EXCEPT !.is_running = FALSE,
              !.window = FALSE,
              !.obs.cancelled = TRUE]

close(s) == [s EXCEPT !.window = FALSE]

(***************************************************************************)
(* The wizard's events: button presses and the Tk event loop.              *)
(***************************************************************************)
WizardInit ==
    /\ current_step = 0
    /\ is_running = FALSE
    /\ neutral_values = EmptyDict
    /\ captured_values = EmptyDict
    /\ start_button = "normal"
    /\ skip_button = "disabled"
    /\ cancel_button = "cancel"
    /\ window = TRUE
    /\ after_queue = EmptyBag

StartCalibration(readings) ==
    /\ window /\ start_button = "normal"
    /\ \E pose \in readings :
           SetWizardState(start_calibration(WizardState, pose))
    /\ UNCHANGED <<midiVars, moreVars>>

SkipStep ==
    /\ window /\ skip_button = "normal"
    /\ obs.skips < MaxSkips
    /\ SetWizardState(skip_step([WizardState EXCEPT !.obs.skips = @ + 1]))
    /\ UNCHANGED <<midiVars, moreVars>>

\* The Cancel button while it is bound to cancel, or the window's close box.
Cancel ==
    /\ window
    /\ SetWizardState(cancel(WizardState))
    /\ UNCHANGED <<midiVars, moreVars>>

\* The same button after finish_calibration rebound it.
Close ==
    /\ window /\ cancel_button = "close"
    /\ SetWizardState(close(WizardState))
    /\ UNCHANGED <<midiVars, moreVars>>

\* Time passes: no timer is due, every pending timer comes SettleMs nearer.
Tick ==
    /\ after_queue # EmptyBag
    /\ \A t \in BagToSet(after_queue) : t.due >= SettleMs
    /\ after_queue' =
           LET ts == BagToSet(after_queue)
               earlier(t) == [t EXCEPT !.due = @ - SettleMs]
           IN  [u \in {earlier(t) : t \in ts} |->
                   after_queue[CHOOSE t \in ts : earlier(t) = u]]
    /\ UNCHANGED <<current_step, is_running, neutral_values, captured_values,
                   start_button, skip_button, cancel_button, window,
                   config, midiVars, moreVars, obs>>

\* The event loop runs a due timer's callback.
FireCountdown(readings) ==
    \E t \in BagToSet(after_queue) :
        /\ t.due = 0 /\ t.cb = "countdown"
        /\ \E pose \in readings :
               SetWizardState(
                   countdown([WizardState EXCEPT
                                  !.after_queue = @ (-) SetToBag({t})],
                             t.seconds, t.action, pose))
        /\ UNCHANGED <<midiVars, moreVars>>

FireNextStep(readings) ==
    \E t \in BagToSet(after_queue) :
        /\ t.due = 0 /\ t.cb = "next_step"
        /\ \E pose \in readings :
               SetWizardState(
                   next_step([WizardState EXCEPT
                                  !.after_queue = @ (-) SetToBag({t})],
                             pose))
        /\ UNCHANGED <<midiVars, moreVars>>

\* The tracker's answers while skip requests are drawn too: a face is seen,
\* except at up to MaxMisses capture instants.
FewMisses == {PoseA} \cup (IF obs.misses < MaxMisses THEN {NoPose} ELSE {})

WizardNext ==
    \/ StartCalibration(FewMisses)
    \/ SkipStep
    \/ Cancel
    \/ Close
    \/ Tick
    \/ FireCountdown(FewMisses)
    \/ FireNextStep(FewMisses)

\* No skip request; the tracker answers anything at every capture.
CaptureNext ==
    \/ StartCalibration(PoseReadings)
    \/ Cancel
    \/ Close
    \/ Tick
    \/ FireCountdown(PoseReadings)
    \/ FireNextStep(PoseReadings)

\* No configuration file read yet.
NoDocument == [loaded |-> << >>, merged |-> << >>]

\* No init_tracking thread, no camera loop, no finish_calibration under way.
ThreadsIdle ==
    [starts   |-> 0,
     starting |-> 0,
     loops    |-> << >>,
     commits  |-> 0,
     writes   |-> << >>,
     commit   |-> << >>,
     read     |-> << >>]

\* FaceTracker.__init__: no previous roll; no get_head_pose call made yet.
TrackerIdle == [prev_roll |-> << >>, samples |-> 0, log |-> << >>]

\* FaceToMIDIApp.__init__: not tracking, debug mode off; last_head_pose does
\* not exist yet and update_value_display was never asked for.
AppIdle ==
    [is_running      |-> FALSE,
     last_head_pose  |-> NoPose,
     neutral_offsets |-> [alias |-> FALSE, value |-> EmptyDict],
     neutral_at_start |-> EmptyDict,
     debug_mode      |-> FALSE,
     value_display   |-> << >>]

MidiIdle ==
    /\ last_values = [a \in AxisNames |-> << >>]
    /\ port_open = TRUE
    /\ edits = 0
    /\ calls = << >>
    /\ mapped = << >>
    /\ app = AppIdle
    /\ tracker = TrackerIdle
    /\ cfgcall = << >>
    /\ threads = ThreadsIdle
    /\ doc = NoDocument

\* The wizard opened over a saved configuration.
InitWizard ==
    /\ WizardInit
    /\ config = SavedConfig
    /\ obs = ObsInit(config)
    /\ MidiIdle

InitCapture ==
    /\ WizardInit
    /\ config \in load_config
    /\ obs = ObsInit(config)
    /\ MidiIdle

SpecWizard == InitWizard /\ [][WizardNext]_vars

SpecCapture == InitCapture /\ [][CaptureNext]_vars

\* The Tk event loop runs every due callback and the clock goes on.
(***************************************************************************)
(* The tracking session: the camera loop calls process_head_pose while     *)
(* the user edits the axis tabs and switches the MIDI port.                *)
(***************************************************************************)
WizardAbsent ==
    /\ current_step = 0
    /\ is_running = FALSE
    /\ neutral_values = EmptyDict
    /\ captured_values = EmptyDict
    /\ start_button = "normal"
    /\ skip_button = "disabled"
    /\ cancel_button = "cancel"
    /\ window = FALSE
    /\ after_queue = EmptyBag

LastTwo(log) == IF Len(log) > 2 THEN SubSeq(log, Len(log) - 1, Len(log)) ELSE log

ProcessHeadPose ==
    \E pose \in AdjustedPoses :
        \E m \in {process_head_pose(Controller(last_values, port_open),
                                    pose, config)} :
            /\ last_values' = m.last_values
            /\ calls' = LastTwo(Append(calls,
                           [pose     |-> pose,
                            config   |-> config,
                            before   |-> last_values,
                            port     |-> port_open,
                            ret      |-> m.midi_values,
                            sent     |-> m.sent,
                            requests |-> m.requests,
                            wire     |-> m.wire]))
            /\ UNCHANGED <<wizVars, config, port_open, edits, mapped, app, moreVars, obs>>

UpdateAxisConfig ==
    /\ edits < MaxEdits
    /\ \E e \in ManualEdits :
           config' = update_axis_config(config, e[1], e[2], e[3])
    /\ edits' = edits + 1
    /\ UNCHANGED <<wizVars, last_values, port_open, calls, mapped, app, moreVars, obs>>

\* on_midi_port_changed: close_port, then open_port, which may fail.
MidiPortChanged ==
    /\ \E success \in BOOLEAN : port_open' = success
    /\ UNCHANGED <<wizVars, config, last_values, edits, calls, mapped, app, moreVars, obs>>

EmitterNext ==
    \/ ProcessHeadPose
    \/ UpdateAxisConfig
    \/ MidiPortChanged

InitEmitter ==
    /\ WizardAbsent
    /\ config \in load_config
    /\ obs = ObsInit(config)
    /\ last_values = [a \in AxisNames |-> << >>]
    /\ port_open \in BOOLEAN
    /\ edits = 0
    /\ calls = << >>
    /\ mapped = << >>
    /\ app = AppIdle
    /\ tracker = TrackerIdle
    /\ cfgcall = << >>
    /\ threads = ThreadsIdle
    /\ doc = NoDocument

SpecEmitter == InitEmitter /\ [][EmitterNext]_vars

(***************************************************************************)
(* FaceToMIDIApp: tracking sessions.  The camera loop adjusts each raw     *)
(* pose by the neutral offsets and hands it to process_head_pose, while    *)
(* the user sets the zero position, finishes a calibration, toggles axes   *)
(* and stops and restarts tracking.                                        *)
(***************************************************************************)
RawA == [pitch |-> 18, yaw |-> -2, roll |-> 5]

RawB == [pitch |-> 3, yaw |-> 10, roll |-> 5]

RawPoses == {RawA, RawB}

\* start_tracking followed by the prologue of camera_loop.  neutral_at_start
\* remembers the offsets the session began with (observation only).
start_tracking(a, cfg) ==
    [is_running      |-> TRUE,
     last_head_pose  |-> NoPose,
     neutral_offsets |-> get_neutral_offsets(cfg),
     neutral_at_start |-> DictGet(cfg, "neutral", Zeros),
     debug_mode      |-> a.debug_mode,
     value_display   |-> a.value_display]

stop_tracking(a) == [a EXCEPT !.is_running = FALSE]

adjusted_pose(head_pose, neutral_offsets) ==
    [pitch |-> head_pose["pitch"] - DictGet(neutral_offsets, "pitch", 0),
     yaw   |-> head_pose["yaw"]   - DictGet(neutral_offsets, "yaw", 0),
     roll  |-> head_pose["roll"]  - DictGet(neutral_offsets, "roll", 0)]

StartTracking ==
    /\ ~app.is_running
    /\ app' = start_tracking(app, config)
    /\ UNCHANGED <<wizVars, config, last_values, port_open, edits, calls,
                   mapped, moreVars, obs>>

StopTracking ==
    /\ app.is_running
    /\ app' = stop_tracking(app)
    /\ UNCHANGED <<wizVars, config, last_values, port_open, edits, calls,
                   mapped, moreVars, obs>>

\* The debug branch of the camera loop with every axis mapped.
simulate_axis_ignores_enabled(midi_values, adjusted, cfg, axis) ==
    DictSet(midi_values, axis,
            map_value(adjusted[axis],
                      cfg[axis].input_min, cfg[axis].input_max,
                      cfg[axis].output_min, cfg[axis].output_max))

\* The body of the loop in the debug branch of camera_loop.
simulate_axis(midi_values, adjusted, cfg, axis) ==
    IF cfg[axis].enabled
    THEN DictSet(midi_values, axis,
                 map_value(adjusted[axis],
                           cfg[axis].input_min, cfg[axis].input_max,
                           cfg[axis].output_min, cfg[axis].output_max))
    ELSE midi_values

\* "In debug mode, just simulate MIDI values".
simulate_midi_values(adjusted, cfg) ==
    simulate_axis(
        simulate_axis(
            simulate_axis(EmptyDict, adjusted, cfg, AxisOrder[1]),
            adjusted, cfg, AxisOrder[2]),
        adjusted, cfg, AxisOrder[3])

\* The arguments of root.after(0, self.update_value_display, ...).
update_value_display(adjusted, midi_values) ==
    << [pose |-> adjusted, midi_values |-> midi_values] >>

\* One pass of the camera loop over a frame with a face in it.
CameraFrame ==
    /\ app.is_running
    /\ \E head_pose \in RawPoses :
           \E adjusted \in {adjusted_pose(head_pose,
                                           Deref(app.neutral_offsets, config))} :
               IF ~app.debug_mode
               THEN \E m \in {process_head_pose(
                                  Controller(last_values, port_open),
                                  adjusted, config)} :
                        /\ app' = [app EXCEPT
                                       !.last_head_pose = head_pose,
                                       !.value_display =
                                           update_value_display(adjusted,
                                                                m.midi_values)]
                        /\ last_values' = m.last_values
                        /\ calls' = << [pose     |-> adjusted,
                                       config   |-> config,
                                       before   |-> last_values,
                                       port     |-> port_open,
                                       ret      |-> m.midi_values,
                                       sent     |-> m.sent,
                                       requests |-> m.requests,
                                       wire     |-> m.wire,
                                       raw      |-> head_pose,
                                       first    |-> app.last_head_pose = NoPose] >>
               ELSE /\ app' = [app EXCEPT
                                   !.last_head_pose = head_pose,
                                   !.value_display =
                                       update_value_display(
                                           adjusted,
                                           simulate_midi_values(adjusted,
                                                                config))]
                    /\ UNCHANGED <<last_values, calls>>
    /\ UNCHANGED <<wizVars, config, port_open, edits, mapped, moreVars, obs>>

\* toggle_debug_mode: the checkbox's new state becomes debug_mode.
ToggleDebugMode ==
    /\ edits < MaxToggles
    /\ edits' = edits + 1
    /\ app' = [app EXCEPT !.debug_mode = ~@]
    /\ UNCHANGED <<wizVars, config, last_values, port_open, calls, mapped,
                   moreVars, obs>>

\* set_zero_position: needs tracking; without a pose it only warns.
SetZeroPosition ==
    /\ app.is_running
    /\ config' = IF app.last_head_pose # NoPose
                 THEN set_neutral_offsets(config, app.last_head_pose)
                 ELSE config
    /\ UNCHANGED <<wizVars, last_values, port_open, edits, calls, mapped,
                   app, moreVars, obs>>

\* The calibration wizard, opened during tracking, reaching
\* finish_calibration with the neutral it captured (or none).
CalibrationCommit ==
    /\ app.is_running
    /\ \E neutral \in RawPoses \cup {EmptyDict} :
           config' = finish_calibration(
                         [WizardState EXCEPT !.neutral_values = neutral,
                                             !.captured_values = EmptyDict]
                     ).config
    /\ UNCHANGED <<wizVars, last_values, port_open, edits, calls, mapped,
                   app, moreVars, obs>>

UpdateAxisEnabled ==
    /\ edits < MaxToggles
    /\ \E axis \in AxisNames :
           config' = update_axis_config(config, axis, "enabled",
                                        ~config[axis].enabled)
    /\ edits' = edits + 1
    /\ UNCHANGED <<wizVars, last_values, port_open, calls, mapped, app, moreVars, obs>>

SessionNext ==
    \/ StartTracking
    \/ StopTracking
    \/ CameraFrame
    \/ SetZeroPosition
    \/ CalibrationCommit
    \/ UpdateAxisEnabled

InitSession ==
    /\ WizardAbsent
    /\ config = get_default_config
    /\ obs = ObsInit(config)
    /\ last_values = [a \in AxisNames |-> << >>]
    /\ port_open = TRUE
    /\ edits = 0
    /\ calls = << >>
    /\ mapped = << >>
    /\ app = AppIdle
    /\ tracker = TrackerIdle
    /\ cfgcall = << >>
    /\ threads = ThreadsIdle
    /\ doc = NoDocument

SpecSession == InitSession /\ [][SessionNext]_vars

(***************************************************************************)
(* FaceToMIDIApp: the per-axis buttons.  "Set Min" and "Set Max" write the *)
(* last raw pose's angle as a bound, "Reset" puts the axis back to its     *)
(* defaults, during one tracking session in which the zero position may    *)
(* be set as well.                                                         *)
(***************************************************************************)
\* calibrate_axis of the app writing the pose as the camera loop adjusts it.
CalibrateAxisAdjusted ==
    /\ edits < MaxPresses
    /\ edits' = edits + 1
    /\ app.is_running
    /\ app.last_head_pose # NoPose
    /\ \E axis \in AxisNames, is_min \in BOOLEAN :
           \E v \in {adjusted_pose(app.last_head_pose,
                                   DictGet(config, "neutral", Zeros))[axis]} :
           \E c \in {calibrate_axis(config, axis, v, is_min)} :
               /\ config' = c
               /\ cfgcall' = << [op     |-> "calibrate_axis",
                                 axis   |-> axis,
                                 is_min |-> is_min,
                                 value  |-> v,
                                 before |-> config,
                                 after  |-> c] >>
    /\ UNCHANGED <<wizVars, last_values, port_open, calls, mapped, app,
                   tracker, threads, doc, obs>>

\* calibrate_axis of the app: needs tracking and a pose.
CalibrateAxis ==
    /\ edits < MaxPresses
    /\ edits' = edits + 1
    /\ app.is_running
    /\ app.last_head_pose # NoPose
    /\ \E axis \in AxisNames, is_min \in BOOLEAN :
           \E c \in {calibrate_axis(config, axis,
                                    DictGet(app.last_head_pose, axis, 0),
                                    is_min)} :
               /\ config' = c
               /\ cfgcall' = << [op     |-> "calibrate_axis",
                                 axis   |-> axis,
                                 is_min |-> is_min,
                                 value  |-> DictGet(app.last_head_pose,
                                                    axis, 0),
                                 before |-> config,
                                 after  |-> c] >>
    /\ UNCHANGED <<wizVars, last_values, port_open, calls, mapped, app,
                   tracker, threads, doc, obs>>

\* reset_axis.
ResetAxis ==
    /\ edits < MaxPresses
    /\ edits' = edits + 1
    /\ \E axis \in AxisNames :
           \E c \in {reset_axis_to_default(config, axis)} :
               /\ config' = c
               /\ cfgcall' = << [op     |-> "reset_axis_to_default",
                                 axis   |-> axis,
                                 is_min |-> FALSE,
                                 value  |-> 0,
                                 before |-> config,
                                 after  |-> c] >>
    /\ UNCHANGED <<wizVars, last_values, port_open, calls, mapped, app,
                   tracker, threads, doc, obs>>

ConfigNext ==
    \/ StartTracking
    \/ CameraFrame
    \/ SetZeroPosition
    \/ CalibrateAxis
    \/ ResetAxis

InitConfig ==
    /\ WizardAbsent
    /\ config \in load_config
    /\ obs = ObsInit(config)
    /\ last_values = [a \in AxisNames |-> << >>]
    /\ port_open = TRUE
    /\ edits = 0
    /\ calls = << >>
    /\ mapped = << >>
    /\ app = AppIdle
    /\ tracker = TrackerIdle
    /\ cfgcall = << >>
    /\ threads = ThreadsIdle
    /\ doc = NoDocument

SpecConfig == InitConfig /\ [][ConfigNext]_vars

(***************************************************************************)
(* FaceToMIDIApp: threads.  start_tracking hands the camera set-up to an   *)
(* init_tracking thread, which sets is_running and starts a camera_loop    *)
(* thread; the loop reads the shared configuration field by field inside   *)
(* process_head_pose while the Tk thread may be inside finish_calibration, *)
(* writing it field by field.  Nothing locks; the interpreter may switch   *)
(* threads between any two statements.                                     *)
(***************************************************************************)
RemoveAt(seq, i) == SubSeq(seq, 1, i - 1) \o SubSeq(seq, i + 1, Len(seq))

\* The Tk thread is between handlers.
TkIdle == threads.writes = << >>

\* What a wizard may hold when it reaches finish_calibration.
CommitCaptures ==
    { [pitch_min |-> 20, pitch_max |-> -10],
      [yaw_min |-> -15, yaw_max |-> 25, roll_min |-> -5] }

\* The configuration writes of finish_calibration, in program order.
axis_writes(captured, axis) ==
    LET min_key == axis \o "_min"
        max_key == axis \o "_max"
    IN  IF min_key \in DOMAIN captured /\ max_key \in DOMAIN captured
        THEN << <<axis, "input_min",
                  PyMin(captured[min_key], captured[max_key])>>,
                <<axis, "input_max",
                  PyMax(captured[min_key], captured[max_key])>> >>
        ELSE << >>

commit_writes(neutral, captured) ==
    (IF neutral # EmptyDict THEN << <<"neutral", "update", neutral>> >>
     ELSE << >>)
        \o axis_writes(captured, AxisOrder[1])
        \o axis_writes(captured, AxisOrder[2])
        \o axis_writes(captured, AxisOrder[3])

apply_write(cfg, w) ==
    IF w[1] = "neutral" THEN set_neutral_offsets(cfg, w[3])
    ELSE update_axis_config(cfg, w[1], w[2], w[3])

\* A camera_loop thread: where it is, the pose of the frame it is working
\* on, the axis process_head_pose has reached and the input_min it read.
NewLoop == [pc |-> "begin", pose |-> NoPose, axis |-> 0, input_min |-> 0]

next_axis(l) ==
    IF l.axis < Len(AxisOrder)
    THEN [l EXCEPT !.pc = "input_min", !.axis = @ + 1, !.input_min = 0]
    ELSE [l EXCEPT !.pc = "while", !.pose = NoPose, !.axis = 0,
                   !.input_min = 0]

\* toggle_tracking: start_tracking spawns init_tracking and returns with
\* is_running still False; stop_tracking clears is_running.
ToggleTracking ==
    /\ TkIdle
    /\ IF ~app.is_running
       THEN /\ threads.starts < MaxStarts
            /\ threads' = [threads EXCEPT !.starts = @ + 1,
                                          !.starting = @ + 1]
            /\ app' = app
       ELSE /\ app' = stop_tracking(app)
            /\ threads' = threads
    /\ UNCHANGED <<wizVars, config, last_values, port_open, edits, calls,
                   mapped, tracker, cfgcall, doc, obs>>

\* An init_tracking thread gets through: either the camera does not open
\* and it returns, or it sets is_running and starts a camera_loop thread.
InitTracking ==
    /\ threads.starting > 0
    /\ \E opened \in BOOLEAN :
           IF opened
           THEN /\ app' = [app EXCEPT !.is_running = TRUE]
                /\ threads' = [threads EXCEPT
                                   !.starting = @ - 1,
                                   !.loops = Append(@, NewLoop)]
           ELSE /\ app' = app
                /\ threads' = [threads EXCEPT !.starting = @ - 1]
    /\ UNCHANGED <<wizVars, config, last_values, port_open, edits, calls,
                   mapped, tracker, cfgcall, doc, obs>>

\* camera_loop before the while.
LoopBegin(i) ==
    /\ threads.loops[i].pc = "begin"
    /\ app' = [start_tracking(app, config) EXCEPT
                   !.is_running = app.is_running]
    /\ threads' = [threads EXCEPT !.loops[i].pc = "while"]
    /\ UNCHANGED <<wizVars, config, last_values, port_open, edits, calls,
                   mapped, tracker, cfgcall, doc, obs>>

\* The while test; when it passes, a frame with a face is read and adjusted
\* and process_head_pose is entered.
LoopWhile(i) ==
    /\ threads.loops[i].pc = "while"
    /\ IF app.is_running
       THEN \E head_pose \in RawPoses :
                /\ app' = [app EXCEPT !.last_head_pose = head_pose]
                /\ threads' = [threads EXCEPT !.loops[i] =
                       next_axis([@ EXCEPT !.pose =
                           adjusted_pose(head_pose,
                               Deref(app.neutral_offsets, config))])]
       ELSE /\ app' = app
            /\ threads' = [threads EXCEPT !.loops = RemoveAt(@, i)]
    /\ UNCHANGED <<wizVars, config, last_values, port_open, edits, calls,
                   mapped, tracker, cfgcall, doc, obs>>

\* process_head_pose on one axis, first half: the enabled test and the read
\* of input_min.
LoopReadInputMin(i) ==
    /\ threads.loops[i].pc = "input_min"
    /\ LET l    == threads.loops[i]
           axis == AxisOrder[l.axis]
       IN  threads' = [threads EXCEPT !.loops[i] =
               IF config[axis].enabled
               THEN [l EXCEPT !.pc = "input_max",
                              !.input_min = config[axis].input_min]
               ELSE next_axis(l)]
    /\ UNCHANGED <<wizVars, config, midiVars, tracker, cfgcall, doc, obs>>

\* Second half: the reads of input_max and the rest, map_value and the send.
LoopReadInputMax(i) ==
    /\ threads.loops[i].pc = "input_max"
    /\ LET l    == threads.loops[i]
           axis == AxisOrder[l.axis]
           seen == [config EXCEPT ![axis].enabled = TRUE,
                                  ![axis].input_min = l.input_min]
       IN  \E m \in {process_axis(Controller(last_values, port_open),
                                  l.pose, seen, axis)} :
               /\ last_values' = m.last_values
               /\ threads' = [threads EXCEPT
                      !.loops[i] = next_axis(l),
                      !.read = << [axis      |-> axis,
                                   input_min |-> l.input_min,
                                   input_max |-> config[axis].input_max,
                                   commit    |-> threads.commit] >>]
    /\ UNCHANGED <<wizVars, config, port_open, edits, calls, mapped, app,
                   tracker, cfgcall, doc, obs>>

\* The wizard, opened during tracking, enters finish_calibration.
BeginCommit ==
    /\ TkIdle
    /\ app.is_running
    /\ threads.commits < MaxCommits
    /\ \E neutral \in {RawA, EmptyDict}, captured \in CommitCaptures :
           threads' = [threads EXCEPT
               !.commits = @ + 1,
               !.writes = commit_writes(neutral, captured),
               !.commit = << [before |-> config,
                              after  |-> finish_calibration(
                                  [WizardState EXCEPT
                                       !.neutral_values = neutral,
                                       !.captured_values = captured]
                                  ).config] >>]
    /\ UNCHANGED <<wizVars, config, midiVars, tracker, cfgcall, doc, obs>>

\* finish_calibration performs its next configuration write.
CommitWrite ==
    /\ threads.writes # << >>
    /\ config' = apply_write(config, Head(threads.writes))
    /\ threads' = [threads EXCEPT !.writes = Tail(@)]
    /\ UNCHANGED <<wizVars, midiVars, tracker, cfgcall, doc, obs>>

ThreadsNext ==
    \/ ToggleTracking
    \/ InitTracking
    \/ \E i \in 1 .. Len(threads.loops) : LoopBegin(i)
    \/ \E i \in 1 .. Len(threads.loops) : LoopWhile(i)
    \/ \E i \in 1 .. Len(threads.loops) : LoopReadInputMin(i)
    \/ \E i \in 1 .. Len(threads.loops) : LoopReadInputMax(i)
    \/ BeginCommit
    \/ CommitWrite

InitThreads ==
    /\ WizardAbsent
    /\ config = get_default_config
    /\ obs = ObsInit(config)
    /\ last_values = [a \in AxisNames |-> << >>]
    /\ port_open = TRUE
    /\ edits = 0
    /\ calls = << >>
    /\ mapped = << >>
    /\ app = AppIdle
    /\ tracker = TrackerIdle
    /\ cfgcall = << >>
    /\ threads = ThreadsIdle
    /\ doc = NoDocument

SpecThreads == InitThreads /\ [][ThreadsNext]_vars

(***************************************************************************)
(* FaceToMIDIApp: the wizard opened again.  Each press of "Calibration     *)
(* Wizard" during tracking builds a new CalibrationWizard; the main window *)
(* waits for it to close before another can be opened.                     *)
(***************************************************************************)
\* start_calibration_wizard.
StartCalibrationWizard ==
    /\ app.is_running
    /\ ~window
    /\ obs.runs < MaxRuns
    /\ SetWizardState(CalibrationWizard(WizardState))
    /\ UNCHANGED <<midiVars, moreVars>>

\* What the tracker answers during the wizard: the user holds one pose in
\* the first run and another in later runs, and at up to MaxMisses capture
\* instants of a run no face is seen.
RunReadings ==
    {IF obs.runs <= 1 THEN PoseA ELSE PoseB}
        \cup (IF obs.misses < MaxMisses THEN {NoPose} ELSE {})

ReentryNext ==
    \/ StartTracking
    \/ StartCalibrationWizard
    \/ StartCalibration(RunReadings)
    \/ Cancel
    \/ Close
    \/ Tick
    \/ FireCountdown(RunReadings)
    \/ FireNextStep(RunReadings)

InitReentry ==
    /\ WizardAbsent
    /\ config = get_default_config
    /\ obs = ObsInit(config)
    /\ MidiIdle

SpecReentry == InitReentry /\ [][ReentryNext]_vars

(***************************************************************************)
(* ConfigManager.__init__: load_config reads the file's JSON object and    *)
(* merges it into the defaults.                                            *)
(***************************************************************************)
\* What a file may hold for an axis section: nothing, a value that is not
\* an object, an empty object, some of the keys, a key the defaults do not
\* have, an object where the defaults have a number.
AxisSections ==
    { Scalar(5),
      Dict(EmptyDict),
      Dict([input_min |-> Scalar(-12)]),
      Dict([input_min |-> Scalar(-12), input_max |-> Scalar(18),
            enabled |-> Scalar(FALSE)]),
      Dict([cc_number |-> Scalar(74), gain |-> Scalar(2)]),
      Dict([channel |-> Dict([number |-> Scalar(1)])]) }

NeutralSections ==
    { Scalar(0),
      Dict([pitch |-> Scalar(3)]),
      Dict([pitch |-> Scalar(3), yaw |-> Scalar(-2), roll |-> Scalar(1)]) }

\* The JSON objects a configuration file may hold: any of its sections
\* present or not, and a section the defaults do not have.
LoadedDocuments ==
    { d \in UNION { [keys -> AxisSections \cup NeutralSections] :
                        keys \in SUBSET {"pitch", "roll", "neutral",
                                         "theme"} } :
        /\ \A k \in DOMAIN d \cap {"pitch", "roll", "theme"} :
               d[k] \in AxisSections
        /\ "neutral" \in DOMAIN d => d["neutral"] \in NeutralSections }

\* The file is found and parsed.
ReadConfigFile ==
    /\ doc.loaded = << >>
    /\ \E d \in LoadedDocuments : doc' = [doc EXCEPT !.loaded = <<d>>]
    /\ UNCHANGED <<wizVars, config, midiVars, tracker, cfgcall, threads,
                   obs>>

\* load_config merges it into a fresh default document.
MergeConfigs ==
    /\ doc.loaded # << >>
    /\ doc.merged = << >>
    /\ doc' = [doc EXCEPT !.merged =
                   <<merge_configs(Document(get_default_config),
                                   doc.loaded[1])>>]
    /\ UNCHANGED <<wizVars, config, midiVars, tracker, cfgcall, threads,
                   obs>>

MergeNext ==
    \/ ReadConfigFile
    \/ MergeConfigs

InitMerge ==
    /\ WizardAbsent
    /\ config = get_default_config
    /\ obs = ObsInit(config)
    /\ MidiIdle

SpecMerge == InitMerge /\ [][MergeNext]_vars

(***************************************************************************)
(* FaceTracker.get_head_pose: the roll angle is folded into -90..90 and    *)
(* then smoothed against the previous roll.  Angles are counted in units   *)
(* of 1/Unit degree, which holds every value the explored runs compute     *)
(* exactly (one more decimal per smoothing step).                          *)
(***************************************************************************)
Unit == 10000

Degrees(d) == d * Unit

\* smoothing_factor = 0.3, as numerator and denominator.
smoothing_factor == <<3, 10>>

Abs(x) == IF x < 0 THEN -x ELSE x

\* normalize_roll folding only angles above 90.
normalize_roll_upper_only(roll) ==
    IF roll > Degrees(90) THEN roll - Degrees(180) ELSE roll

normalize_roll(roll) ==
    IF roll > Degrees(90) THEN roll - Degrees(180)
    ELSE IF roll < Degrees(-90) THEN roll + Degrees(180)
    ELSE roll

\* smooth_roll that rejects a jump of exactly 60 degrees too.
smooth_roll_rejects_sixty(prev_roll, roll) ==
    IF prev_roll # << >>
    THEN IF Abs(roll - prev_roll[1]) >= Degrees(60)
         THEN prev_roll[1]
         ELSE prev_roll[1]
                  + (smoothing_factor[1] * (roll - prev_roll[1]))
                        \div smoothing_factor[2]
    ELSE roll

\* smooth_roll that smooths a jump instead of rejecting it.
smooth_roll_accepts_jumps(prev_roll, roll) ==
    IF prev_roll # << >>
    THEN prev_roll[1]
             + (smoothing_factor[1] * (roll - prev_roll[1]))
                   \div smoothing_factor[2]
    ELSE roll

\* smooth_roll that also smooths the first sample, from zero.
smooth_roll_from_zero(prev_roll, roll) ==
    LET prev == IF prev_roll # << >> THEN prev_roll[1] ELSE 0
    IN  IF Abs(roll - prev) > Degrees(60)
        THEN prev
        ELSE prev + (smoothing_factor[1] * (roll - prev))
                        \div smoothing_factor[2]

\* smooth_roll with a bias of one unit on every smoothed sample.
smooth_roll_drifts(prev_roll, roll) ==
    IF prev_roll # << >>
    THEN IF Abs(roll - prev_roll[1]) > Degrees(60)
         THEN prev_roll[1]
         ELSE prev_roll[1] + 1
                  + (smoothing_factor[1] * (roll - prev_roll[1]))
                        \div smoothing_factor[2]
    ELSE roll

\* The smoothing block: the value that is returned and stored as prev_roll.
smooth_roll(prev_roll, roll) ==
    IF prev_roll # << >>
    THEN IF Abs(roll - prev_roll[1]) > Degrees(60)
         THEN prev_roll[1]
         ELSE prev_roll[1]
                  + (smoothing_factor[1] * (roll - prev_roll[1]))
                        \div smoothing_factor[2]
    ELSE roll

\* get_head_pose that remembers the sample itself, also one it rejected.
get_head_pose_stores_sample(tr, raw_roll) ==
    LET normalized == normalize_roll(raw_roll)
        roll       == smooth_roll(tr.prev_roll, normalized)
    IN  [prev_roll |-> <<normalized>>,
         samples   |-> tr.samples + 1,
         log       |-> LastTwo(Append(tr.log,
                          [raw        |-> raw_roll,
                           normalized |-> normalized,
                           before     |-> tr.prev_roll,
                           roll       |-> roll]))]

\* The roll part of get_head_pose, with the call noted in the log.
get_head_pose(tr, raw_roll) ==
    LET normalized == normalize_roll(raw_roll)
        roll       == smooth_roll(tr.prev_roll, normalized)
    IN  [prev_roll |-> <<roll>>,
         samples   |-> tr.samples + 1,
         log       |-> LastTwo(Append(tr.log,
                          [raw        |-> raw_roll,
                           normalized |-> normalized,
                           before     |-> tr.prev_roll,
                           roll       |-> roll]))]

\* Raw roll angles of the pose domain (-180, 180], in whole degrees: all of
\* them for the first sample, the ones around the thresholds afterwards.
AllRolls == {Degrees(d) : d \in -179 .. 180}

KeyRolls ==
    {Degrees(d) : d \in {-150, -91, -90, -60, 0, 59, 60, 61, 90, 91, 150, 180}}

GetHeadPose ==
    /\ tracker.samples < MaxSamples
    /\ \E raw_roll \in (IF tracker.prev_roll = << >> THEN AllRolls ELSE KeyRolls) :
           tracker' = get_head_pose(tracker, raw_roll)
    /\ UNCHANGED <<wizVars, config, midiVars, cfgcall, threads, doc, obs>>

FilterNext == GetHeadPose

InitFilter ==
    /\ WizardAbsent
    /\ config = get_default_config
    /\ obs = ObsInit(config)
    /\ last_values = [a \in AxisNames |-> << >>]
    /\ port_open = FALSE
    /\ edits = 0
    /\ calls = << >>
    /\ mapped = << >>
    /\ app = AppIdle
    /\ tracker = TrackerIdle
    /\ cfgcall = << >>
    /\ threads = ThreadsIdle
    /\ doc = NoDocument

SpecFilter == InitFilter /\ [][FilterNext]_vars

(***************************************************************************)
(* map_value on its own: called on some arguments, then again on the same  *)
(* ranges with another value.                                              *)
(***************************************************************************)
MapExamples ==
    { <<-130, -30, 30, 0, 127>>, <<130, -30, 30, 0, 127>>,
      <<15, -30, 30, 0, 127>>,   <<5, 10, 10, 0, 127>>,
      <<9, -20, 30, 0, 100>>,    <<8, -20, 30, 0, 100>> }

MapValues ==
    ((-MaxInput - 1) .. (MaxInput + 1)) \cup {e[1] : e \in MapExamples}

MapArgs ==
    { <<v, a, b, c, d>> : v \in (-MaxInput - 1) .. (MaxInput + 1),
                          a \in -MaxInput .. MaxInput,
                          b \in -MaxInput .. MaxInput,
                          c \in -MaxOutput .. MaxOutput,
                          d \in -MaxOutput .. MaxOutput }
        \cup MapExamples

MapCall(x) ==
    [input_value |-> x[1], input_min |-> x[2], input_max |-> x[3],
     output_min |-> x[4], output_max |-> x[5],
     result |-> map_value(x[1], x[2], x[3], x[4], x[5])]

MapValue ==
    /\ mapped = << >>
    /\ \E x \in MapArgs : mapped' = << MapCall(x) >>
    /\ UNCHANGED <<wizVars, config, last_values, port_open, edits, calls, app, moreVars, obs>>

MapValueAgain ==
    /\ Len(mapped) = 1
    /\ \E v \in MapValues :
           mapped' = Append(mapped,
                            MapCall(<<v, mapped[1].input_min, mapped[1].input_max,
                                      mapped[1].output_min, mapped[1].output_max>>))
    /\ UNCHANGED <<wizVars, config, last_values, port_open, edits, calls, app, moreVars, obs>>

MapperNext ==
    \/ MapValue
    \/ MapValueAgain

InitMapper ==
    /\ WizardAbsent
    /\ config = get_default_config
    /\ obs = ObsInit(config)
    /\ last_values = [a \in AxisNames |-> << >>]
    /\ port_open = FALSE
    /\ edits = 0
    /\ calls = << >>
    /\ mapped = << >>
    /\ app = AppIdle
    /\ tracker = TrackerIdle
    /\ cfgcall = << >>
    /\ threads = ThreadsIdle
    /\ doc = NoDocument

SpecMapper == InitMapper /\ [][MapperNext]_vars

EventLoop == Tick \/ FireCountdown(FewMisses) \/ FireNextStep(FewMisses)

SpecWizardFair == SpecWizard /\ WF_vars(EventLoop)

(***************************************************************************)
(* The wizard during tracking over a configuration with neutral offsets:   *)
(* its pose callback is get_current_head_pose, the camera loop's last raw  *)
(* pose, while the camera loop goes on mapping frames.                     *)
(***************************************************************************)
get_current_head_pose == {app.last_head_pose}

\* A pass of the camera loop while the user holds one pose.
SteadyFrame == CameraFrame /\ app'.last_head_pose = RawA

OffsetsNext ==
    \/ StartTracking
    \/ SteadyFrame
    \/ StartCalibrationWizard
    \/ StartCalibration(get_current_head_pose)
    \/ SkipStep
    \/ Cancel
    \/ Close
    \/ Tick
    \/ FireCountdown(get_current_head_pose)
    \/ FireNextStep(get_current_head_pose)

InitOffsets ==
    /\ WizardAbsent
    /\ config = SavedConfig
    /\ obs = ObsInit(config)
    /\ MidiIdle

SpecOffsets == InitOffsets /\ [][OffsetsNext]_vars

(***************************************************************************)
(* FaceToMIDIApp: tracking with the "Debug Mode (No MIDI)" box ticked and  *)
(* unticked, axes enabled and disabled, the zero position set.             *)
(***************************************************************************)
DebugNext ==
    \/ StartTracking
    \/ StopTracking
    \/ CameraFrame
    \/ ToggleDebugMode
    \/ UpdateAxisEnabled
    \/ SetZeroPosition

InitDebug ==
    /\ WizardAbsent
    /\ config \in load_config
    /\ obs = ObsInit(config)
    /\ MidiIdle

SpecDebug == InitDebug /\ [][DebugNext]_vars

(***************************************************************************)
(* Claims about the calibration sequence                                   *)
(***************************************************************************)
\* The steps by the names the specification gives them, with the data point
\* each one records and the seconds it counts down.
StepNames ==
    << "NEUTRAL", "PITCH_MAX", "PITCH_MIN", "YAW_MAX", "YAW_MIN",
       "ROLL_MAX", "ROLL_MIN", "COMPLETE" >>

StepDataPoint ==
    << "neutral", "pitch_max", "pitch_min", "yaw_max", "yaw_min",
       "roll_max", "roll_min" >>

StepAction ==
    << "capture_neutral", "capture_pitch_max", "capture_pitch_min",
       "capture_yaw_max", "capture_yaw_min", "capture_roll_max",
       "capture_roll_min" >>

StepSeconds == << 6, 4, 4, 4, 4, 4, 4 >>

StepAxis ==
    << "all", "pitch", "pitch", "yaw", "yaw", "roll", "roll" >>

Started == start_button = "disabled"

Committed == obs.commits >= 1

LastCall == calls[Len(calls)]

EnabledAxes(c) == {a \in AxisNames : a \in DOMAIN c.pose /\ c.config[a].enabled}

\* A call asks send_cc for an axis exactly when the axis is enabled and its
\* mapped value differs from the cached one (or none is cached).
SendsIffChanged(c) ==
    /\ c.sent \subseteq EnabledAxes(c)
    /\ DOMAIN c.ret = EnabledAxes(c)
    /\ \A a \in EnabledAxes(c) :
           (a \in c.sent) <=> (c.before[a] # <<c.ret[a]>>)
    /\ Len(c.requests) = Cardinality(c.sent)

IdenticalPair ==
    /\ Len(calls) = 2
    /\ calls[1].pose = calls[2].pose
    /\ calls[1].config = calls[2].config

Transmits(c, a) == IF a \in c.sent THEN 1 ELSE 0

\* C1: in every process_head_pose call a Control-Change is handed to send_cc
\* for an enabled axis if and only if the mapped value differs from
\* last_values[axis] (or none is cached); two consecutive calls with the same
\* pose and configuration return the same mapping, the second sends nothing,
\* and the first sends for an enabled axis exactly when its cache differed
\* before it, so the pair sends at most once per enabled axis.
C1_SendsOnlyOnChange ==
    /\ calls # << >> => SendsIffChanged(LastCall)
    /\ IdenticalPair =>
           /\ calls[1].ret = calls[2].ret
           /\ calls[2].sent = {}
           /\ \A a \in EnabledAxes(calls[1]) :
                  /\ Transmits(calls[1], a) + Transmits(calls[2], a) <= 1
                  /\ Transmits(calls[1], a) + Transmits(calls[2], a) = 1
                         <=> calls[1].before[a] # <<calls[1].ret[a]>>

\* Two identical consecutive calls, the first of which found one enabled axis
\* already cached at its mapped value and another one not.
C1_Witness ==
    /\ IdenticalPair
    /\ \E a, b \in EnabledAxes(calls[1]) :
           /\ calls[1].before[a] = <<calls[1].ret[a]>>
           /\ calls[1].before[b] # <<calls[1].ret[b]>>
           /\ b \in calls[1].sent

\* C1 as stated: every identical consecutive pair sends exactly once per
\* enabled axis in total.
C1_ExactlyOnePerPair ==
    /\ calls # << >> => SendsIffChanged(LastCall)
    /\ IdenticalPair =>
           /\ calls[1].ret = calls[2].ret
           /\ \A a \in EnabledAxes(calls[1]) :
                  Transmits(calls[1], a) + Transmits(calls[2], a) = 1

\* C2: once skip was requested while step k was current, the data point of
\* step k is never recorded in the rest of the run.
C2_SkippedStepNeverRecorded ==
    [][\A k \in obs.skipped :
           k + 1 <= Len(StepDataPoint) =>
               obs'.stored[StepDataPoint[k + 1]] = obs.stored[StepDataPoint[k + 1]]
      ]_vars

\* C3: after the commit, every axis with both capture slots populated has
\* the smaller captured value as input_min and the larger as input_max.
C3_CommitSortsExtrema ==
    Committed =>
        \A a \in AxisNames :
            LET lo == a \o "_min"
                hi == a \o "_max"
            IN  (lo \in DOMAIN captured_values /\ hi \in DOMAIN captured_values) =>
                    /\ config[a].input_min <= config[a].input_max
                    /\ {config[a].input_min, config[a].input_max}
                           = {captured_values[lo], captured_values[hi]}

C3_Witness ==
    /\ Committed
    /\ {"pitch_max", "pitch_min"} \subseteq DOMAIN captured_values
    /\ captured_values["pitch_max"] = -5
    /\ captured_values["pitch_min"] = 20
    /\ config["pitch"].input_min = -5
    /\ config["pitch"].input_max = 20

CancelledBeforeComplete == obs.cancelled /\ obs.commits = 0

\* C4: a sequence cancelled before COMPLETE leaves the configuration as it
\* was at the start, and the timers still pending capture nothing, advance
\* no step and commit nothing.
C4_CancelCommitsNothing ==
    /\ [](CancelledBeforeComplete => config = obs.config0)
    /\ [][CancelledBeforeComplete =>
              /\ config' = config
              /\ neutral_values' = neutral_values
              /\ captured_values' = captured_values
              /\ current_step' = current_step
              /\ obs'.captures = obs.captures
              /\ obs'.commits = obs.commits
         ]_vars

C4_Witness ==
    /\ CancelledBeforeComplete
    /\ obs.captures >= 2
    /\ obs.skips >= 1
    /\ \E t \in BagToSet(after_queue) : t.cb = "countdown" /\ t.due = 0
    /\ \E t \in BagToSet(after_queue) : t.cb = "next_step"

\* C5: without skip and cancel the steps are entered in the fixed order,
\* each once; a step counts down its seconds, then attempts one capture of
\* its own action, and only then is the next step entered.
C5_FixedOrderAndDurations ==
    (Started /\ obs.skips = 0 /\ ~obs.cancelled) =>
        /\ current_step \in 0..(Len(StepNames) - 1)
        /\ obs.entered = [i \in 1..(current_step + 1) |-> i - 1]
        /\ (StepNames[current_step + 1] = "COMPLETE") = (obs.commits = 1)
        /\ \A k \in 0..(Len(StepAction) - 1) :
               LET a == StepAction[k + 1]
                   d == StepSeconds[k + 1]
               IN  /\ k < current_step =>
                          obs.ticks[a] = d /\ obs.attempts[a] = 1
                   /\ k = current_step =>
                          /\ obs.ticks[a] <= d
                          /\ obs.attempts[a] <= 1
                          /\ obs.attempts[a] = 1 => obs.ticks[a] = d
                   /\ k > current_step =>
                          obs.ticks[a] = 0 /\ obs.attempts[a] = 0

C5_Witness ==
    /\ Started /\ obs.skips = 0 /\ ~obs.cancelled
    /\ obs.commits = 1
    /\ obs.entered = << 0, 1, 2, 3, 4, 5, 6, 7 >>
    /\ obs.ticks["capture_neutral"] = 6
    /\ obs.ticks["capture_roll_min"] = 4

\* C6: whatever timers and skip requests interleave, the commit happens at
\* most once in a started sequence, and after it nothing is captured, no
\* step is advanced and nothing is committed.
C6_CompleteOnce ==
    /\ [](obs.commits <= 1)
    /\ [][Committed =>
              /\ obs'.commits = obs.commits
              /\ obs'.captures = obs.captures
              /\ current_step' = current_step
              /\ neutral_values' = neutral_values
              /\ captured_values' = captured_values
              /\ config' = config
         ]_vars

C6_Witness ==
    /\ obs.commits = 1
    /\ obs.skips >= 1
    /\ window
    /\ \E t \in BagToSet(after_queue) :
           t.cb = "countdown" /\ t.seconds = 0 /\ t.due = 0

\* C7: a running sequence that is never cancelled reaches COMPLETE, with or
\* without a pose at the captures and whatever skips are requested.
C7_ReachesComplete ==
    is_running ~> (StepNames[current_step + 1] = "COMPLETE" \/ obs.cancelled)

C7_Witness ==
    /\ StepNames[current_step + 1] = "COMPLETE"
    /\ ~is_running
    /\ obs.misses >= 1
    /\ obs.skips >= 1
    /\ ~obs.cancelled

BothSlots(a) ==
    {a \o "_min", a \o "_max"} \subseteq DOMAIN captured_values

\* C8: the commit leaves input_min and input_max of an axis that lacks a
\* slot as they were, and changes no other field of any axis.
C8_CommitFrame ==
    [][obs'.commits = obs.commits + 1 =>
           \A a \in AxisNames :
               /\ ~BothSlots(a) => config'[a] = config[a]
               /\ \A f \in {"enabled", "output_min", "output_max",
                            "cc_number", "channel"} :
                      config'[a][f] = config[a][f]
      ]_vars

C8_Witness ==
    /\ Committed
    /\ BothSlots("pitch")
    /\ config["pitch"] # obs.config0["pitch"]
    /\ "yaw_max" \in DOMAIN captured_values
    /\ "yaw_min" \notin DOMAIN captured_values
    /\ DOMAIN captured_values \cap {"roll_min", "roll_max"} = {}
    /\ config["yaw"] = SavedConfig["yaw"]

CaptureStep == obs'.captures = obs.captures + 1

\* C9: a capture instant without a pose records nothing and is followed by
\* the same settle timer for next_step as a successful capture.
C9_NoPoseRecordsNothing ==
    [][(CaptureStep /\ obs'.last_capture.pose = NoPose) =>
           /\ neutral_values' = neutral_values
           /\ captured_values' = captured_values
           /\ config' = config
           /\ is_running' = is_running
           /\ current_step' = current_step
           /\ \E t \in BagToSet(after_queue) :
                  /\ t.cb = "countdown" /\ t.seconds = 0 /\ t.due = 0
                  /\ after_queue' = (after_queue (-) SetToBag({t}))
                        (+) SetToBag({[cb |-> "next_step", seconds |-> 0,
                                       action |-> "", due |-> 500]})
      ]_vars

C9_Witness ==
    /\ obs.last_capture = [action |-> "capture_pitch_max", pose |-> NoPose]
    /\ current_step = 2
    /\ is_running
    /\ neutral_values # EmptyDict
    /\ "pitch_max" \notin DOMAIN captured_values

\* C10: with a pose at the capture instant, NEUTRAL stores the raw pose as
\* the neutral values; a directional step stores the raw angle of its axis
\* minus the neutral angle of that axis (0 while no neutral was captured)
\* in its own slot and changes no other slot.
C10_CaptureStores ==
    [][(CaptureStep /\ obs'.last_capture.pose # NoPose) =>
           LET p == obs'.last_capture.pose
               k == CHOOSE i \in 1..Len(StepAction) :
                        StepAction[i] = obs'.last_capture.action
           IN  IF StepNames[k] = "NEUTRAL"
               THEN /\ neutral_values' = p
                    /\ captured_values' = captured_values
               ELSE LET slot == StepDataPoint[k]
                        axis == StepAxis[k]
                        zero == IF axis \in DOMAIN neutral_values
                                THEN neutral_values[axis] ELSE 0
                    IN  /\ neutral_values' = neutral_values
                        /\ DOMAIN captured_values'
                               = DOMAIN captured_values \cup {slot}
                        /\ captured_values'[slot] = p[axis] - zero
                        /\ \A other \in DOMAIN captured_values \ {slot} :
                               captured_values'[other] = captured_values[other]
      ]_vars

C10_Witness ==
    /\ neutral_values = PoseA
    /\ obs.last_capture = [action |-> "capture_yaw_min", pose |-> PoseB]
    /\ "yaw_min" \in DOMAIN captured_values
    /\ captured_values["yaw_min"] = -19
    /\ "yaw_max" \in DOMAIN captured_values

CommitStep == obs'.commits = obs.commits + 1

\* C11: the commit sets the configuration's neutral offsets to the pose the
\* NEUTRAL step captured exactly when that step captured one, whatever
\* directional slots are populated; otherwise it leaves them unchanged.
C11_NeutralCommitted ==
    [][CommitStep =>
           /\ (obs.stored["neutral"] >= 1) <=> (neutral_values # EmptyDict)
           /\ obs.stored["neutral"] >= 1 =>
                  /\ neutral_values \in PoseReadings \ {NoPose}
                  /\ config'["neutral"] = neutral_values
           /\ obs.stored["neutral"] = 0 =>
                  config'["neutral"] = config["neutral"]
      ]_vars

C11_Witness ==
    /\ Committed
    /\ obs.stored["neutral"] = 1
    /\ neutral_values = PoseB
    /\ captured_values = EmptyDict
    /\ config["neutral"] = PoseB
    /\ obs.config0["neutral"] # PoseB

OutLow(c)  == PyMin(c.output_min, c.output_max)

OutHigh(c) == PyMax(c.output_min, c.output_max)

\* C12: whatever the arguments, reversed or empty ranges included, the
\* result of map_value lies between the smaller and the larger of
\* output_min and output_max.
C12_ResultInOutputInterval ==
    \A i \in 1 .. Len(mapped) :
        /\ mapped[i].result \in Int
        /\ OutLow(mapped[i]) <= mapped[i].result
        /\ mapped[i].result <= OutHigh(mapped[i])

\* A value beyond a reversed input range mapped onto a reversed output range.
C12_Witness ==
    /\ Len(mapped) = 1
    /\ mapped[1].input_min > mapped[1].input_max
    /\ mapped[1].output_min > mapped[1].output_max
    /\ mapped[1].input_value > mapped[1].input_min
    /\ mapped[1].result = mapped[1].output_min

Increasing(c) == c.input_min <= c.input_max /\ c.output_min < c.output_max

Monotonic ==
    (Len(mapped) = 2 /\ Increasing(mapped[1])
        /\ mapped[1].input_value <= mapped[2].input_value)
        => mapped[1].result <= mapped[2].result

\* C13: on input_min <= input_max and output_min < output_max, map_value is
\* non-decreasing in the value and every value at or below input_min maps to
\* output_min; every value at or above input_max maps to output_max when
\* input_min < input_max, and to output_min when the two bounds are equal.
C13_MonotonicAndClamped ==
    /\ Monotonic
    /\ \A i \in 1 .. Len(mapped) :
           LET c == mapped[i]
           IN  Increasing(c) =>
                   /\ c.input_value <= c.input_min => c.result = c.output_min
                   /\ (c.input_value >= c.input_max /\ c.input_min < c.input_max)
                          => c.result = c.output_max
                   /\ c.input_min = c.input_max => c.result = c.output_min

\* The two clamps on -30..30 onto 0..127, 100 beyond either bound.
C13_Witness ==
    /\ Len(mapped) = 2
    /\ mapped[1] = [input_value |-> -130, input_min |-> -30, input_max |-> 30,
                    output_min |-> 0, output_max |-> 127, result |-> 0]
    /\ mapped[2] = [input_value |-> 130, input_min |-> -30, input_max |-> 30,
                    output_min |-> 0, output_max |-> 127, result |-> 127]

\* C13 as stated: the upper clamp also on input_min = input_max.
C13_ClampedOnEqualBounds ==
    /\ Monotonic
    /\ \A i \in 1 .. Len(mapped) :
           LET c == mapped[i]
           IN  Increasing(c) =>
                   /\ c.input_value <= c.input_min => c.result = c.output_min
                   /\ c.input_value >= c.input_max => c.result = c.output_max

\* C14: on input_min = input_max, map_value evaluates (no division takes
\* place) and returns output_min for every value, below, at or above the
\* bound.
C14_EmptyInputRange ==
    \A i \in 1 .. Len(mapped) :
        mapped[i].input_min = mapped[i].input_max
            => mapped[i].result = mapped[i].output_min

\* map_value(5, 10, 10, 0, 127) = 0, then 130 on the same ranges.
C14_Witness ==
    /\ Len(mapped) = 2
    /\ mapped[1] = [input_value |-> 5, input_min |-> 10, input_max |-> 10,
                    output_min |-> 0, output_max |-> 127, result |-> 0]
    /\ mapped[2].input_value = 130
    /\ mapped[2].result = 0

\* Truncation toward zero of
\* ((clamp(value) - in_min) / (in_max - in_min)) * (out_max - out_min) + out_min
\* for in_min < in_max, then clamped to out_min..out_max.
TruncatedQuotient(c) ==
    LET v == IF c.input_value < c.input_min THEN c.input_min
             ELSE IF c.input_value > c.input_max THEN c.input_max
             ELSE c.input_value
        d == c.input_max - c.input_min
        n == (v - c.input_min) * (c.output_max - c.output_min) + c.output_min * d
        q == IF n >= 0 THEN n \div d ELSE -((-n) \div d)
    IN  PyMax(c.output_min, PyMin(c.output_max, q))

PitchScenario(c) ==
    /\ c.pose["pitch"] = 15
    /\ c.config["pitch"] = get_default_config["pitch"]
    /\ c.before["pitch"] = << >>

\* C15: on input_min < input_max the result of map_value is the truncated
\* quotient, clamped; and a first call with pitch 15 on the default pitch
\* configuration maps pitch to 95 and asks send_cc once for (channel 0, cc 1,
\* value 95), which puts (0xB0, 1, 95) on an open port.
C15_TruncatedQuotient ==
    /\ \A i \in 1 .. Len(mapped) :
           mapped[i].input_min < mapped[i].input_max
               => mapped[i].result = TruncatedQuotient(mapped[i])
    /\ \A i \in 1 .. Len(calls) :
           PitchScenario(calls[i]) =>
               /\ calls[i].ret["pitch"] = 95
               /\ Cardinality({k \in 1 .. Len(calls[i].requests) :
                      calls[i].requests[k] = <<0, 1, 95>>}) = 1
               /\ calls[i].requests[1] = <<0, 1, 95>>
               /\ Len(calls[i].wire) > 0 => calls[i].wire[1] = <<176, 1, 95>>

RECURSIVE BitOr(_, _)
BitOr(a, b) ==
    IF a = 0 THEN b
    ELSE IF b = 0 THEN a
    ELSE (IF a % 2 = 1 \/ b % 2 = 1 THEN 1 ELSE 0)
             + 2 * BitOr(a \div 2, b \div 2)

SentInOrder(c) == SelectSeq(AxisOrder, LAMBDA a : a \in c.sent)

\* C16: every message a process_head_pose call puts on the port is, for the
\* axis it is sent for, the triple (0xB0 | channel, cc_number, midi_value)
\* with channel and cc_number of that axis's configuration at the call and
\* midi_value the value returned for the axis.
C16_ControlChangeTriple ==
    \A i \in 1 .. Len(calls) :
        LET c == calls[i]
        IN  \A k \in 1 .. Len(c.wire) :
                LET a == SentInOrder(c)[k]
                IN  c.wire[k] = << BitOr(176, c.config[a].channel),
                                   c.config[a].cc_number,
                                   c.ret[a] >>

ConfigEnabled(c) == {a \in AxisNames : c.config[a].enabled}

\* C17: the mapping process_head_pose returns has an entry for exactly the
\* enabled axes, each the mapped value of the pose under the configuration
\* of the call, sent or not; a disabled axis has no entry and no message.
C17_ReturnsEnabledAxes ==
    \A i \in 1 .. Len(calls) :
        LET c == calls[i]
        IN  /\ DOMAIN c.ret = ConfigEnabled(c)
            /\ \A a \in ConfigEnabled(c) :
                   c.ret[a] = map_value(c.pose[a],
                                        c.config[a].input_min,
                                        c.config[a].input_max,
                                        c.config[a].output_min,
                                        c.config[a].output_max)
            /\ c.sent \subseteq ConfigEnabled(c)
            /\ Len(c.requests) = Cardinality(c.sent)
            /\ Len(c.wire) <= Len(c.requests)

\* A call with a disabled axis, an enabled axis that was sent and an enabled
\* axis that was returned without being sent.
C17_Witness ==
    /\ calls # << >>
    /\ ConfigEnabled(LastCall) # AxisNames
    /\ \E a, b \in ConfigEnabled(LastCall) :
           /\ a \in LastCall.sent
           /\ b \notin LastCall.sent
           /\ b \in DOMAIN LastCall.ret

\* C19: with no port open, a process_head_pose call puts nothing on the
\* port whatever it asks of send_cc, and returns the mapping (and leaves
\* the cache) it would with a port open on the same pose, configuration and
\* cache.
C19_ClosedPortIsNoOp ==
    \A i \in 1 .. Len(calls) :
        LET c    == calls[i]
            open == process_head_pose(Controller(c.before, TRUE),
                                      c.pose, c.config)
        IN  ~c.port =>
                /\ c.wire = << >>
                /\ c.ret = open.midi_values
                /\ c.requests = open.requests
                /\ (i = Len(calls) => last_values = open.last_values)

\* A call without an open port that asked send_cc for every axis.
C19_Witness ==
    /\ calls # << >>
    /\ ~LastCall.port
    /\ Len(LastCall.requests) = 3
    /\ LastCall.wire = << >>
    /\ DOMAIN LastCall.ret = AxisNames

NothingCached == [a \in AxisNames |-> << >>]

\* C18: last_values[axis] is reset to none when the axis becomes disabled,
\* and all of last_values when tracking is started again, so the first
\* process_head_pose call of a tracking session sends every enabled axis.
C18_CacheReset ==
    /\ [][\A a \in AxisNames :
              (config[a].enabled /\ ~config'[a].enabled)
                  => last_values'[a] = << >>]_vars
    /\ [][(~app.is_running /\ app'.is_running)
              => last_values' = NothingCached]_vars
    /\ [][(calls' # calls /\ calls'[1].first)
              => calls'[1].sent = ConfigEnabled(calls'[1])]_vars

\* C20: every pose handed to process_head_pose is, per axis, the raw pose
\* minus the neutral offsets the configuration holds at that moment, also
\* after set_zero_position or a calibration commit changed them while
\* tracking runs.
C20_AdjustedByCurrentOffsets ==
    \A i \in 1 .. Len(calls) :
        \A a \in AxisNames :
            calls[i].pose[a] = calls[i].raw[a] - calls[i].config["neutral"][a]

\* A later frame of a session that began with other offsets: the raw pose
\* is the one the zero position was set to, and it is handed on as (0,0,0).
C20_Witness ==
    /\ calls # << >>
    /\ app.is_running
    /\ ~calls[1].first
    /\ app.neutral_at_start = Zeros
    /\ calls[1].config["neutral"] = RawA
    /\ calls[1].raw = RawA
    /\ calls[1].pose = Zeros

\* C21: on every raw roll angle of (-180, 180], the normalized roll lies in
\* -90..90 and differs from the raw angle by exactly 0, +180 or -180.
C21_NormalizeWrap ==
    \A i \in 1 .. Len(tracker.log) :
        LET c == tracker.log[i]
        IN  /\ Degrees(-90) <= c.normalized
            /\ c.normalized <= Degrees(90)
            /\ c.normalized - c.raw \in {0, Degrees(180), Degrees(-180)}

\* One sample folded down from above 90 and one folded up from below -90.
C21_Witness ==
    /\ Len(tracker.log) = 2
    /\ tracker.log[1].raw = Degrees(-179)
    /\ tracker.log[1].normalized = Degrees(1)
    /\ tracker.log[2].raw = Degrees(91)
    /\ tracker.log[2].normalized = Degrees(-89)

\* The prev_roll a logged call left behind: what the next logged call found,
\* or what the tracker holds now.
StoredAfter(i) ==
    IF i < Len(tracker.log) THEN tracker.log[i + 1].before
    ELSE tracker.prev_roll

Jump(c) == Abs(c.normalized - c.before[1])

\* C22: with a previous roll, a sample more than 60 degrees away from it is
\* answered by the previous roll, which stays stored; a sample at most 60
\* degrees away (60 included) is smoothed, not rejected.  From previous 0,
\* 61 gives 0 and 59 gives 17.7.
C22_JumpRejection ==
    \A i \in 1 .. Len(tracker.log) :
        LET c == tracker.log[i]
        IN  c.before # << >> =>
                /\ Jump(c) > Degrees(60) =>
                       /\ c.roll = c.before[1]
                       /\ StoredAfter(i) = c.before
                /\ Jump(c) <= Degrees(60) =>
                       10 * (c.roll - c.before[1])
                           = 3 * (c.normalized - c.before[1])
                /\ (c.before[1] = 0 /\ c.normalized = Degrees(61))
                       => c.roll = 0
                /\ (c.before[1] = 0 /\ c.normalized = Degrees(59))
                       => 10 * c.roll = Degrees(177)

\* From previous 0: first 61, rejected, then 59, smoothed to 17.7.
C22_Witness ==
    /\ Len(tracker.log) = 2
    /\ tracker.log[1].before = <<0>>
    /\ tracker.log[1].normalized = Degrees(61)
    /\ tracker.log[1].roll = 0
    /\ tracker.log[2].before = <<0>>
    /\ tracker.log[2].normalized = Degrees(59)
    /\ 10 * tracker.log[2].roll = Degrees(177)
    /\ tracker.prev_roll = <<tracker.log[2].roll>>

\* C23: without a previous roll the sample is returned and stored as it
\* is; with one and a distance of at most 60 degrees,
\* previous + 0.3 * (sample - previous) is returned and stored; what is
\* returned is always what is stored afterwards.
C23_AdoptOrSmooth ==
    \A i \in 1 .. Len(tracker.log) :
        LET c == tracker.log[i]
        IN  /\ c.before = << >> => c.roll = c.normalized
            /\ (c.before # << >> /\ Jump(c) <= Degrees(60)) =>
                   10 * c.roll = 10 * c.before[1]
                                     + 3 * (c.normalized - c.before[1])
            /\ StoredAfter(i) = <<c.roll>>

\* A first sample of 30 degrees adopted, then 90 smoothed to 48.
C23_Witness ==
    /\ tracker.samples = 2
    /\ tracker.log[1].before = << >>
    /\ tracker.log[1].roll = Degrees(30)
    /\ tracker.log[2].before = <<Degrees(30)>>
    /\ tracker.log[2].normalized = Degrees(90)
    /\ tracker.log[2].roll = Degrees(48)
    /\ tracker.prev_roll = <<Degrees(48)>>

\* C24: a sample equal to the stored previous roll is returned as it is and
\* leaves the stored value unchanged; a value fed twice to a fresh filter
\* comes back both times.
C24_SameSampleFixedPoint ==
    /\ \A i \in 1 .. Len(tracker.log) :
           LET c == tracker.log[i]
           IN  c.before = <<c.normalized>> =>
                   /\ c.roll = c.normalized
                   /\ StoredAfter(i) = c.before
    /\ (Len(tracker.log) = 2 /\ tracker.log[1].before = << >>
            /\ tracker.log[2].normalized = tracker.log[1].normalized)
           => /\ tracker.log[1].roll = tracker.log[1].normalized
              /\ tracker.log[2].roll = tracker.log[1].normalized

\* 60 degrees fed twice to a fresh filter.
C24_Witness ==
    /\ tracker.samples = 2
    /\ tracker.log[1].before = << >>
    /\ tracker.log[1].raw = Degrees(60)
    /\ tracker.log[2].raw = Degrees(60)
    /\ tracker.log[1].roll = Degrees(60)
    /\ tracker.log[2].roll = Degrees(60)
    /\ tracker.prev_roll = <<Degrees(60)>>

InputBound(is_min) == IF is_min THEN "input_min" ELSE "input_max"

\* C25: reset_axis_to_default on pitch, yaw or roll leaves that axis enabled
\* with input range [-30, 30], output range [0, 127], channel 0 and CC
\* number 1, 2 or 3; the other two axes and the neutral offsets stay as they
\* were; resetting again changes nothing.
C25_ResetAxisToDefault ==
    \A i \in 1 .. Len(cfgcall) :
        LET c == cfgcall[i]
        IN  c.op = "reset_axis_to_default" =>
                /\ c.after[c.axis] =
                       [enabled |-> TRUE, input_min |-> -30, input_max |-> 30,
                        output_min |-> 0, output_max |-> 127,
                        cc_number |-> CASE c.axis = "pitch" -> 1
                                        [] c.axis = "yaw"   -> 2
                                        [] c.axis = "roll"  -> 3,
                        channel |-> 0]
                /\ DOMAIN c.after = DOMAIN c.before
                /\ \A k \in DOMAIN c.before \ {c.axis} :
                       c.after[k] = c.before[k]
                /\ reset_axis_to_default(c.after, c.axis) = c.after

\* Roll reset after its bounds, another axis and the neutral offsets had all
\* left the defaults.
C25_Witness ==
    /\ cfgcall # << >>
    /\ cfgcall[1].op = "reset_axis_to_default"
    /\ cfgcall[1].axis = "roll"
    /\ cfgcall[1].before["roll"] # get_default_config["roll"]
    /\ cfgcall[1].before["pitch"] # get_default_config["pitch"]
    /\ cfgcall[1].before["neutral"] # get_default_config["neutral"]
    /\ config = cfgcall[1].after
    /\ config["roll"] = get_default_config["roll"]
    /\ config["pitch"] = cfgcall[1].before["pitch"]

\* C26: calibrate_axis writes the value to input_min when is_min is true and
\* to input_max otherwise and changes nothing else, whatever the other bound
\* is.
C26_CalibrateAxisWritesOneBound ==
    \A i \in 1 .. Len(cfgcall) :
        LET c == cfgcall[i]
        IN  c.op = "calibrate_axis" =>
                c.after = [c.before EXCEPT
                               ![c.axis][InputBound(c.is_min)] = c.value]

\* A minimum written above the axis's maximum.
C26_Witness ==
    /\ cfgcall # << >>
    /\ cfgcall[1].op = "calibrate_axis"
    /\ cfgcall[1].is_min
    /\ cfgcall[1].before[cfgcall[1].axis].input_min
           <= cfgcall[1].before[cfgcall[1].axis].input_max
    /\ config = cfgcall[1].after
    /\ config[cfgcall[1].axis].input_min > config[cfgcall[1].axis].input_max

InputPair(cfg, axis) == <<cfg[axis].input_min, cfg[axis].input_max>>

\* The stepwise finish_calibration ends where the handler as a whole ends.
CommitWritesAgree ==
    (threads.commit # << >> /\ threads.writes = << >>)
        => config = threads.commit[1].after

\* C27: a process_head_pose call that runs while the wizard commits sees an
\* axis's (input_min, input_max) either as before the commit or as after
\* it, never one bound of each.
C27_NoTornInputPair ==
    \A i \in 1 .. Len(threads.read) :
        LET r == threads.read[i]
        IN  r.commit # << >> =>
                <<r.input_min, r.input_max>>
                    \in {InputPair(r.commit[1].before, r.axis),
                         InputPair(r.commit[1].after, r.axis)}

\* C28: at most one camera loop thread is alive at any time.
C28_SingleCameraLoop == Len(threads.loops) <= 1

\* The pose the user holds during the current run.
RunPose == IF obs.runs <= 1 THEN PoseA ELSE PoseB

\* Every value the wizard holds was captured in the current run: from the
\* pose of this run, less this run's neutral where one was captured.
FreshValues ==
    /\ neutral_values \in {EmptyDict, RunPose}
    /\ (neutral_values # EmptyDict) => (obs.stored["neutral"] >= 1)
    /\ \A i \in 2 .. Len(StepDataPoint) :
           StepDataPoint[i] \in DOMAIN captured_values =>
               /\ obs.stored[StepDataPoint[i]] >= 1
               /\ captured_values[StepDataPoint[i]]
                      \in {RunPose[StepAxis[i]], 0}

StartsFresh ==
    obs'.runs = obs.runs + 1 =>
        /\ is_running'
        /\ current_step' = 0
        /\ StepNames[current_step' + 1] = "NEUTRAL"
        /\ neutral_values' = EmptyDict
        /\ captured_values' = EmptyDict

CommitsOwnValues ==
    CommitStep =>
        /\ config'["neutral"] = IF neutral_values # EmptyDict
                                THEN neutral_values ELSE config["neutral"]
        /\ \A a \in AxisNames :
               IF BothSlots(a)
               THEN /\ config'[a].input_min =
                           PyMin(captured_values[a \o "_min"],
                                 captured_values[a \o "_max"])
                    /\ config'[a].input_max =
                           PyMax(captured_values[a \o "_min"],
                                 captured_values[a \o "_max"])
               ELSE config'[a] = config[a]

\* C29: start_calibration puts the wizard on the NEUTRAL step with no neutral
\* values and no captured slot, so whatever a run holds and commits was
\* captured in that run, never in an earlier cancelled or completed one.
C29_RestartIsFresh ==
    []FreshValues /\ [][StartsFresh /\ CommitsOwnValues]_vars

\* A second run committed its own neutral over the first run's; it missed
\* roll_min, and the roll range the first run committed is untouched.
C29_Witness ==
    /\ obs.runs = 2
    /\ Committed
    /\ obs.config0["neutral"] = PoseA
    /\ neutral_values = PoseB
    /\ config["neutral"] = PoseB
    /\ "roll_max" \in DOMAIN captured_values
    /\ "roll_min" \notin DOMAIN captured_values
    /\ obs.config0["roll"] # get_default_config["roll"]
    /\ config["roll"] = obs.config0["roll"]
    /\ config["pitch"].input_max = 0

Defaults == Document(get_default_config)

\* The merged value of a default key inside a section is the loaded one
\* where the file has that section as an object with the key, else the
\* default.
SectionMerged(loaded, merged, k) ==
    /\ merged[k].dict
    /\ \A f \in DOMAIN Defaults[k].items :
           /\ f \in DOMAIN merged[k].items
           /\ merged[k].items[f] =
                  IF k \in DOMAIN loaded /\ loaded[k].dict
                         /\ f \in DOMAIN loaded[k].items
                  THEN loaded[k].items[f]
                  ELSE Defaults[k].items[f]

\* C30: after the merge every key of the defaults, top level and inside each
\* section, is present, with the loaded value where the file has the key
\* and the default where it has not.
C30_DeepMerge ==
    doc.merged # << >> =>
        /\ DOMAIN doc.merged[1] = DOMAIN Defaults
        /\ \A k \in DOMAIN Defaults :
               SectionMerged(doc.loaded[1], doc.merged[1], k)

\* The same for the files whose sections are all objects.
DeepMergeOfObjects ==
    (doc.merged # << >>
         /\ \A k \in DOMAIN doc.loaded[1] : doc.loaded[1][k].dict)
        => /\ DOMAIN doc.merged[1] = DOMAIN Defaults
           /\ \A k \in DOMAIN Defaults :
                  SectionMerged(doc.loaded[1], doc.merged[1], k)

\* Step k's own countdown has reached zero (its capture instant has come).
OwnCountdownDone(k) == obs.attempts[StepAction[k + 1]] >= 1

\* C31: the wizard leaves a capture step only by one step, and only after a
\* skip request made during that step or after that step's own countdown
\* has run out; a capture is always made for the step that is current.
C31_StepLeftByOwnEvent ==
    [][/\ (current_step' # current_step /\ current_step < Len(StepAction)) =>
              /\ current_step' = current_step + 1
              /\ current_step \in obs.skipped \/ OwnCountdownDone(current_step)
       /\ CaptureStep =>
              obs'.last_capture.action = StepAction[current_step + 1]
      ]_vars

\* last_values as the i-th remembered call left it.
CacheAfter(i) == IF i < Len(calls) THEN calls[i + 1].before ELSE last_values

\* The messages of a call that carry an axis's CC number and channel.
WireFor(c, a) ==
    SelectSeq(c.wire,
              LAMBDA w : w[1] = ControlChange + c.config[a].channel
                             /\ w[2] = c.config[a].cc_number)

\* C32: after a process_head_pose call last_values holds, for every enabled
\* axis, the value the call returned for it, and for every disabled axis
\* what it held before; the call asks send_cc at most once per axis.
C32_CacheFollowsReturn ==
    \A i \in 1 .. Len(calls) :
        LET c == calls[i]
        IN  /\ \A a \in ConfigEnabled(c) : CacheAfter(i)[a] = <<c.ret[a]>>
            /\ \A a \in AxisNames \ ConfigEnabled(c) :
                   CacheAfter(i)[a] = c.before[a]
            /\ c.sent \subseteq ConfigEnabled(c)
            /\ Len(c.requests) = Cardinality(c.sent)
            /\ Len(c.wire) <= Len(c.requests)

\* A call with a disabled axis whose cache holds a value, a sent axis and an
\* enabled axis left unsent.
C32_Witness ==
    /\ Len(calls) = 2
    /\ \E a, b, d \in AxisNames :
           /\ d \notin ConfigEnabled(calls[2])
           /\ calls[2].before[d] # << >>
           /\ last_values[d] = calls[2].before[d]
           /\ a \in calls[2].sent
           /\ last_values[a] = <<calls[2].ret[a]>>
           /\ calls[2].before[a] # last_values[a]
           /\ b \in ConfigEnabled(calls[2]) \ calls[2].sent
           /\ last_values[b] = <<calls[2].ret[b]>>

\* The two remembered calls differ, for axis a, in CC number or channel.
Rerouted(a) ==
    \/ calls[1].config[a].cc_number # calls[2].config[a].cc_number
    \/ calls[1].config[a].channel # calls[2].config[a].channel

\* C33: when an axis enabled in two consecutive calls has the same mapped
\* value in both, the second call sends nothing for it, also when its CC
\* number or channel was changed in between.
C33_SuppressionIgnoresRouting ==
    Len(calls) = 2 =>
        \A a \in ConfigEnabled(calls[1]) \cap ConfigEnabled(calls[2]) :
            calls[1].ret[a] = calls[2].ret[a] => a \notin calls[2].sent

\* An axis's CC number or channel changed between two calls with a port
\* open; the first call sent its value, the second puts nothing on the port.
C33_Witness ==
    /\ Len(calls) = 2
    /\ \E a \in ConfigEnabled(calls[1]) \cap ConfigEnabled(calls[2]) :
           /\ Rerouted(a)
           /\ calls[1].ret[a] = calls[2].ret[a]
           /\ a \in calls[1].sent
           /\ calls[1].port /\ calls[2].port
           /\ calls[2].wire = << >>

\* C34: a call made without an open port notes the values it computed in
\* last_values all the same, and a following call made with a port open
\* puts nothing on the port for an axis whose mapped value is unchanged.
C34_ClosedPortStillCaches ==
    /\ \A i \in 1 .. Len(calls) :
           ~calls[i].port =>
               \A a \in ConfigEnabled(calls[i]) :
                   CacheAfter(i)[a] = <<calls[i].ret[a]>>
    /\ (Len(calls) = 2 /\ ~calls[1].port /\ calls[2].port) =>
           \A a \in ConfigEnabled(calls[1]) \cap ConfigEnabled(calls[2]) :
               calls[1].ret[a] = calls[2].ret[a] =>
                   /\ a \notin calls[2].sent
                   /\ WireFor(calls[2], a) = << >>

\* Every axis asked for without a port, the port opened, the same pose again:
\* nothing goes out; the values were never transmitted.
C34_Witness ==
    /\ Len(calls) = 2
    /\ ~calls[1].port
    /\ calls[1].before = NothingCached
    /\ Len(calls[1].requests) = 3
    /\ calls[1].wire = << >>
    /\ calls[2].port
    /\ calls[2].pose = calls[1].pose
    /\ calls[2].config = calls[1].config
    /\ calls[2].wire = << >>

LastSample == tracker.log[Len(tracker.log)]

\* C35: a get_head_pose call whose normalized roll is more than 60 degrees
\* from the stored previous roll answers the previous roll and leaves it
\* stored, so as long as the samples stay that far away the answer stays
\* the old previous roll, however often the same input is repeated.
C35_RejectionLocksFilter ==
    /\ [][(tracker'.samples = tracker.samples + 1
               /\ tracker.prev_roll # << >>
               /\ Abs(LastSample'.normalized - tracker.prev_roll[1])
                      > Degrees(60))
              => /\ tracker'.prev_roll = tracker.prev_roll
                 /\ LastSample'.roll = tracker.prev_roll[1]]_vars
    /\ [](\A i \in 1 .. Len(tracker.log) :
              (tracker.log[i].before # << >>
                   /\ \A j \in i .. Len(tracker.log) :
                          Abs(tracker.log[j].normalized
                                  - tracker.log[i].before[1]) > Degrees(60))
                  => /\ tracker.prev_roll = tracker.log[i].before
                     /\ \A j \in i .. Len(tracker.log) :
                            tracker.log[j].roll = tracker.log[i].before[1])

\* After a first sample of 0, the input stays at 90: both later answers are 0
\* and 0 is still what the filter holds.
C35_Witness ==
    /\ tracker.samples = 3
    /\ tracker.log[1].before = <<0>>
    /\ tracker.log[1].normalized = Degrees(90)
    /\ tracker.log[1].roll = 0
    /\ tracker.log[2].before = <<0>>
    /\ tracker.log[2].normalized = Degrees(90)
    /\ tracker.log[2].roll = 0
    /\ tracker.prev_roll = <<0>>

\* C36: on input_min > input_max, and on output_min > output_max whatever
\* the input range, map_value returns output_min for every value.
C36_ReversedRangeIsConstant ==
    \A i \in 1 .. Len(mapped) :
        LET c == mapped[i]
        IN  (c.input_min > c.input_max \/ c.output_min > c.output_max)
                => c.result = c.output_min

\* Two values, one beyond each bound of a reversed input range, onto an
\* increasing output range: both give output_min.
C36_Witness ==
    /\ Len(mapped) = 2
    /\ mapped[1].input_min > mapped[1].input_max
    /\ mapped[1].output_min < mapped[1].output_max
    /\ mapped[1].input_value < mapped[1].input_max
    /\ mapped[2].input_value > mapped[1].input_min
    /\ mapped[1].result = mapped[1].output_min
    /\ mapped[2].result = mapped[1].output_min

\* The step a capture action belongs to.
StepOf(action) == CHOOSE k \in 1 .. Len(StepAction) : StepAction[k] = action

\* C37: while the run has recorded no neutral pose, a directional capture
\* with a pose stores the raw angle of its axis, whatever neutral offsets
\* the configuration holds; every pose the camera loop hands to the mapper
\* is the raw pose minus the configuration's neutral offsets.
C37_UncalibratedCapturesAreRaw ==
    /\ [][(/\ CaptureStep
           /\ obs'.last_capture.pose # NoPose
           /\ obs'.last_capture.action # "capture_neutral"
           /\ neutral_values = EmptyDict) =>
              LET k == StepOf(obs'.last_capture.action)
              IN  /\ StepDataPoint[k] \in DOMAIN captured_values'
                  /\ captured_values'[StepDataPoint[k]]
                         = obs'.last_capture.pose[StepAxis[k]]
         ]_vars
    /\ [](\A i \in 1 .. Len(calls) :
              \A a \in AxisNames :
                  calls[i].pose[a]
                      = calls[i].raw[a] - DictGet(calls[i].config, "neutral", Zeros)[a])

\* NEUTRAL was skipped; PITCH_MAX captured the raw pitch 18 over a stored
\* neutral pitch of 3, and the camera loop maps the same raw pose as 15.
C37_Witness ==
    /\ window
    /\ neutral_values = EmptyDict
    /\ 0 \in obs.skipped
    /\ obs.last_capture = [action |-> "capture_pitch_max", pose |-> RawA]
    /\ "pitch_max" \in DOMAIN captured_values
    /\ captured_values["pitch_max"] = 18
    /\ config["neutral"]["pitch"] = 3
    /\ calls # << >>
    /\ calls[1].raw = RawA
    /\ calls[1].pose["pitch"] = 15

\* A press of "Set Min" or "Set Max".
PressSetBound ==
    /\ edits' = edits + 1
    /\ cfgcall' # << >>
    /\ cfgcall'[1].op = "calibrate_axis"

\* The last frame was taken at the pose of the last "Set Min"/"Set Max"
\* press and mapped under the configuration that press left.
FrameAtCalibratedPose ==
    /\ cfgcall # << >> /\ calls # << >>
    /\ cfgcall[1].op = "calibrate_axis"
    /\ calls[1].config = cfgcall[1].after
    /\ calls[1].raw[cfgcall[1].axis] = cfgcall[1].value

\* C38: "Set Min"/"Set Max" writes the axis's angle of the last raw pose,
\* neutral offsets not subtracted, into input_min/input_max; a following
\* frame at that same pose is therefore mapped from the written bound minus
\* the axis's neutral offset, not from the bound.
C38_SetBoundWritesRawPose ==
    /\ [][PressSetBound =>
              LET c == cfgcall'[1]
              IN  /\ c.value = app.last_head_pose[c.axis]
                  /\ config'[c.axis][InputBound(c.is_min)]
                         = app.last_head_pose[c.axis]
         ]_vars
    /\ [](FrameAtCalibratedPose =>
              LET c == cfgcall[1]
                  f == calls[1]
              IN  f.pose[c.axis]
                      = f.config[c.axis][InputBound(c.is_min)]
                            - f.config["neutral"][c.axis])

\* "Set Min" pressed on an enabled axis under a negative neutral offset;
\* the next frame at the same pose maps above output_min.
C38_Witness ==
    /\ FrameAtCalibratedPose
    /\ cfgcall[1].is_min
    /\ config = cfgcall[1].after
    /\ config[cfgcall[1].axis].enabled
    /\ config["neutral"][cfgcall[1].axis] < 0
    /\ config[cfgcall[1].axis].input_min < config[cfgcall[1].axis].input_max
    /\ calls[1].ret[cfgcall[1].axis] > config[cfgcall[1].axis].output_min

\* A pass of the camera loop made while debug mode is on.
DebugFrameStep ==
    /\ app.is_running /\ app'.is_running
    /\ app.debug_mode /\ app'.debug_mode
    /\ app' # app

\* C39: a pass of the camera loop in debug mode calls process_head_pose not
\* at all, so nothing is sent and last_values stays, and the values it hands
\* to the display are those process_head_pose would return for the same
\* adjusted pose and configuration.
C39_DebugModeSimulates ==
    [][DebugFrameStep =>
           /\ calls' = calls
           /\ last_values' = last_values
           /\ app'.value_display # << >>
           /\ LET d == app'.value_display[1]
              IN  /\ d.pose = adjusted_pose(app'.last_head_pose,
                                            config["neutral"])
                  /\ d.midi_values
                         = process_head_pose(
                               Controller(last_values, port_open),
                               d.pose, config).midi_values
      ]_vars

\* Debug mode on over the saved configuration: the display shows pitch and
\* roll values, none for the disabled yaw, and no value was ever cached.
C39_Witness ==
    /\ app.is_running /\ app.debug_mode
    /\ app.last_head_pose = RawA
    /\ config = SavedConfig
    /\ app.value_display # << >>
    /\ DOMAIN app.value_display[1].midi_values = {"pitch", "roll"}
    /\ app.value_display[1].pose = [pitch |-> 15, yaw |-> 0, roll |-> 4]
    /\ calls = << >>
    /\ last_values = [a \in AxisNames |-> << >>]

====
